---- MODULE Spec2Model ----
(***************************************************************************)
(* tidb-gateway: a MySQL-protocol reverse proxy.                           *)
(*                                                                         *)
(* The module models                                                       *)
(*   - the framed connection mysql.Conn (packet framing, sequence numbers, *)
(*     reset marks, bufio writer, compression layer),                      *)
(*   - the per-connection session Gateway.handleConn (handshake, routing,  *)
(*     auth exchange, relay),                                              *)
(*   - the accept loop Gateway.serve and Gateway.Stop.                     *)
(*                                                                         *)
(* Byte strings are kept in run-length form: a byte string is a sequence   *)
(* of runs, a run being `len` consecutive bytes starting at offset `off`   *)
(* of one source (a payload, a 4-byte packet header, a 7-byte compressed   *)
(* frame header, a zlib stream).  The code never looks inside a payload    *)
(* except at its first byte, so every payload byte is an opaque symbol     *)
(* (source, offset) and the real lengths (2^24-1, 2^23-1, 128) are kept.   *)
(***************************************************************************)
EXTENDS Integers, Sequences, FiniteSets, TLC

----------------------------------------------------------------------------
(* Program constants.                                                      *)

\* conn.go: MaxPayloadLen = 1<<24 - 1
MaxPayloadLen == 16777215
\* conn.go: defaultWriterSize = 16 * 1024
defaultWriterSize == 16384
\* conn.go: defaultReaderSize = 16 * 1024
defaultReaderSize == 16384
\* compress.go: minCompressLen = 128
minCompressLen == 128
\* compress.go: maxBufferLen = (1 << 23) - 1
maxBufferLen == 8388607

\* conn.go: SeqResetNone / SeqResetOnRead / SeqResetOnWrite / SeqResetBoth,
\* a two-bit mask kept as the set of its bits.
SeqResetOnRead == "onRead"
SeqResetOnWrite == "onWrite"
SeqResetNone == {}
SeqResetBoth == {SeqResetOnRead, SeqResetOnWrite}
ResetOptions == {SeqResetNone, {SeqResetOnRead}, {SeqResetOnWrite}, SeqResetBoth}

\* first bytes the proxy looks at (HeaderOK, HeaderEOF, HeaderErr); any
\* other first byte is represented by OtherByte.
HeaderOK == 0
HeaderEOF == 254
HeaderErr == 255
OtherByte == HeaderOK + 1

----------------------------------------------------------------------------
(* Byte strings in run-length form.                                        *)

\* k: "raw" bytes z, "pl" payload (a = id, b = first byte), "hdr" packet header (a = payload
\* length, b = sequence), "zhdr" compressed-frame header (a = payload length,
\* b = sequence, c = uncompressed length), "zlib" deflate stream of z.
Run(k, a, b, c, off, len, z) ==
    [k |-> k, a |-> a, b |-> b, c |-> c, off |-> off, len |-> len, z |-> z]

SameSource(r, s) ==
    /\ r.k = s.k /\ r.a = s.a /\ r.b = s.b /\ r.c = s.c /\ r.z = s.z

RECURSIVE BLen(_)
BLen(bs) == IF bs = <<>> THEN 0 ELSE Head(bs).len + BLen(Tail(bs))

\* concatenation; two runs that continue each other become one run again
Cat(x, y) ==
    IF x = <<>> THEN y
    ELSE IF y = <<>> THEN x
    ELSE LET l == x[Len(x)]
             h == Head(y)
         IN IF SameSource(l, h) /\ l.off + l.len = h.off
            THEN SubSeq(x, 1, Len(x) - 1)
                     \o <<[l EXCEPT !.len = l.len + h.len]>>
                     \o Tail(y)
            ELSE x \o y

\* bs[:n]
RECURSIVE Take(_, _)
Take(bs, n) ==
    IF n <= 0 \/ bs = <<>> THEN <<>>
    ELSE LET h == Head(bs)
         IN IF h.len <= n THEN <<h>> \o Take(Tail(bs), n - h.len)
            ELSE <<[h EXCEPT !.len = n]>>

\* bs[n:]
RECURSIVE Drop(_, _)
Drop(bs, n) ==
    IF n <= 0 \/ bs = <<>> THEN bs
    ELSE LET h == Head(bs)
         IN IF h.len <= n THEN Drop(Tail(bs), n - h.len)
            ELSE <<[h EXCEPT !.off = h.off + n, !.len = h.len - n]>> \o Tail(bs)

\* a payload of len bytes whose first byte is first
Payload(id, first, len) ==
    IF len = 0 THEN <<>> ELSE <<Run("pl", id, first, 0, 0, len, <<>>)>>

\* a payload given byte by byte
Raw(bytes) ==
    IF bytes = <<>> THEN <<>> ELSE <<Run("raw", 0, 0, 0, 0, Len(bytes), bytes)>>

\* data[0]; bytes other than the first one of a "pl" payload are OtherByte
FirstByte(data) ==
    IF Head(data).k = "raw" THEN Head(data).z[Head(data).off + 1]
    ELSE IF Head(data).k = "pl" /\ Head(data).off = 0 THEN Head(data).b
    ELSE OtherByte

\* the bytes of a run
RunBytes(r) ==
    IF r.k = "raw" THEN SubSeq(r.z, r.off + 1, r.off + r.len)
    ELSE [i \in 1..r.len |-> IF r.k = "pl" /\ r.off + i = 1 THEN r.b ELSE OtherByte]

\* b.Bytes(): a payload byte by byte
RECURSIVE Bytes(_)
Bytes(data) ==
    IF data = <<>> THEN <<>> ELSE RunBytes(Head(data)) \o Bytes(Tail(data))

PacketHeader_OneMore(plen, seq) ==
    <<Run("hdr", (plen + 1) % (MaxPayloadLen + 1), seq, 0, 0, 4, <<>>)>>

\* util.go writeLen3 + the sequence byte: the 4-byte wire header
PacketHeader(plen, seq) == <<Run("hdr", plen, seq, 0, 0, 4, <<>>)>>

IsPacketHeader(bs) ==
    /\ Len(bs) = 1
    /\ bs[1].k = "hdr" /\ bs[1].off = 0 /\ bs[1].len = 4

----------------------------------------------------------------------------
(* mysql.Conn and mysql.Compressor.                                        *)
(*                                                                         *)
(* A Conn is a record.  wbuf is the content of its bufio.Writer, tx the    *)
(* bytes it has handed to the raw connection and the peer has not read     *)
(* yet.  The bytes a Conn reads are passed to the read operators as rx     *)
(* (the peer's tx).  Operators return the Conn after the call.             *)

\* compress.go NewCompressor; `on` is Conn.compressor != nil
NewCompressor(on) ==
    [on |-> on, sequence |-> 0, seqreset |-> SeqResetNone,
     readBuffer |-> <<>>, writeBuffer |-> <<>>]

\* a uint64 as its four 16-bit words, the high one first
Uint64(n) == <<0, 0, n \div 65536, n % 65536>>

\* math.MaxUint64, the maxAllowedPacket of NewConn
MaxUint64 == <<65535, 65535, 65535, 65535>>

NewConn ==
    [sequence |-> 0, seqreset |-> SeqResetNone, wbuf |-> <<>>, tx |-> <<>>,
     maxAllowedPacket |-> MaxUint64,
     compressor |-> NewCompressor(FALSE)]

\* conn.go Conn.SetMaxAllowedPacket
SetMaxAllowedPacket(c, maxAllowedPacket) ==
    [c EXCEPT !.maxAllowedPacket = Uint64(maxAllowedPacket)]

\* bufio.Writer.Write on the writer NewConn creates (size defaultWriterSize):
\* p is buffered when it fits, otherwise the buffer is filled and flushed and
\* a remainder larger than the buffer goes straight to the connection.
BufioWrite(c, p) ==
    LET avail == defaultWriterSize - BLen(c.wbuf)
    IN IF BLen(p) <= avail
       THEN [c EXCEPT !.wbuf = Cat(c.wbuf, p)]
       ELSE IF c.wbuf = <<>>
            THEN [c EXCEPT !.tx = Cat(c.tx, p)]
            ELSE LET rest == Drop(p, avail)
                     out == Cat(Cat(c.tx, c.wbuf), Take(p, avail))
                 IN IF BLen(rest) > defaultWriterSize
                    THEN [c EXCEPT !.tx = Cat(out, rest), !.wbuf = <<>>]
                    ELSE [c EXCEPT !.tx = out, !.wbuf = rest]

\* bufio.Writer.Flush
BufioFlush(c) == [c EXCEPT !.tx = Cat(c.tx, c.wbuf), !.wbuf = <<>>]

\* the 7-byte header of a compressed frame
FrameHeader(plen, seq, ulen) == <<Run("zhdr", plen, seq, ulen, 0, 7, <<>>)>>

IsFrameHeader(bs) ==
    /\ Len(bs) = 1
    /\ bs[1].k = "zhdr" /\ bs[1].off = 0 /\ bs[1].len = 7

\* zlib.NewWriter(..).Write + Close: a deflate stream that carries bs; its
\* length depends on the data and is taken as half the input plus the 6
\* bytes of zlib header and checksum.
ZlibLen(n) == (n \div 2) + 6
ZlibDeflate(bs) == <<Run("zlib", 0, 0, 0, 0, ZlibLen(BLen(bs)), bs)>>

IsZlibStream(bs) ==
    /\ Len(bs) = 1
    /\ bs[1].k = "zlib" /\ bs[1].off = 0
    /\ bs[1].len = ZlibLen(BLen(bs[1].z))

\* io.Copy(&c.readBuffer, zlib.NewReader(..))
ZlibInflate(bs) == bs[1].z

\* a mutant of Compressor.Flush that still writes a pending buffer of exactly
\* minCompressLen bytes without compression
CompressorFlush_InclusiveThreshold(c) ==
    LET z0 == c.compressor
        seq == IF SeqResetOnWrite \in z0.seqreset THEN 0 ELSE z0.sequence
        z1 == [z0 EXCEPT !.seqreset = z0.seqreset \ {SeqResetOnWrite},
                         !.sequence = (seq + 1) % 256,
                         !.writeBuffer = <<>>]
        Emit(head, payload) ==
            BufioFlush([BufioWrite(BufioWrite(c, head), payload)
                            EXCEPT !.compressor = z1])
        Frame(wlen, payload) ==
            IF wlen <= minCompressLen
            THEN Emit(FrameHeader(wlen, seq, 0), z0.writeBuffer)
            ELSE Emit(FrameHeader(BLen(payload), seq, wlen), payload)
    IN Frame(BLen(z0.writeBuffer), ZlibDeflate(z0.writeBuffer))

\* compress.go Compressor.Flush
CompressorFlush(c) ==
    LET z0 == c.compressor
        seq == IF SeqResetOnWrite \in z0.seqreset THEN 0 ELSE z0.sequence
        z1 == [z0 EXCEPT !.seqreset = z0.seqreset \ {SeqResetOnWrite},
                         !.sequence = (seq + 1) % 256,
                         !.writeBuffer = <<>>]
        Emit(head, payload) ==
            BufioFlush([BufioWrite(BufioWrite(c, head), payload)
                            EXCEPT !.compressor = z1])
        Frame(wlen, payload) ==
            IF wlen < minCompressLen
            THEN Emit(FrameHeader(wlen, seq, 0), z0.writeBuffer)
            ELSE Emit(FrameHeader(BLen(payload), seq, wlen), payload)
    IN Frame(BLen(z0.writeBuffer), ZlibDeflate(z0.writeBuffer))

\* compress.go Compressor.Write: the Conn after the call and the count n the
\* call returns (the count of its last writeBuffer.Write)
RECURSIVE CompressorWrite(_, _)
CompressorWrite(c, p) ==
    IF p = <<>> THEN [c |-> c, n |-> 0]
    ELSE LET Fill(capacity, plen) ==
                 IF capacity >= plen
                 THEN [c |-> [c EXCEPT !.compressor.writeBuffer =
                                           Cat(c.compressor.writeBuffer, p)],
                       n |-> plen]
                 ELSE CompressorWrite(
                          CompressorFlush([c EXCEPT !.compressor.writeBuffer =
                                              Cat(c.compressor.writeBuffer,
                                                  Take(p, capacity))]),
                          Drop(p, capacity))
         IN Fill(maxBufferLen - BLen(c.compressor.writeBuffer), BLen(p))

\* c.w.Write(p): the compressor when compression is enabled, else the bufio
\* writer (which reports every byte written)
ConnWrite(c, p) ==
    IF c.compressor.on THEN CompressorWrite(c, p)
    ELSE [c |-> BufioWrite(c, p), n |-> BLen(p)]

\* conn.go Conn.Flush
Flush(c) == IF c.compressor.on THEN CompressorFlush(c) ELSE BufioFlush(c)

\* conn.go Conn.SetResetOption (and compress.go Compressor.SetResetOption)
SetResetOption(c, opt) ==
    IF c.compressor.on
    THEN [c EXCEPT !.seqreset = opt, !.compressor.seqreset = opt]
    ELSE [c EXCEPT !.seqreset = opt]

\* conn.go Conn.EnableCompression
EnableCompression(c) == [c EXCEPT !.compressor = NewCompressor(TRUE)]

\* conn.go Conn.WritePacket, the loop over the chunks of data; err is TRUE
\* when the call returns ErrBadConn
RECURSIVE WriteChunks(_, _)
WriteChunks(c, data) ==
    LET Body(w2, plen, rest) ==
            IF w2.n # plen THEN [c |-> w2.c, err |-> TRUE]
            ELSE IF rest = <<>>
                 THEN [c |-> [w2.c EXCEPT !.sequence = (c.sequence + 1) % 256],
                       err |-> FALSE]
                 ELSE WriteChunks([w2.c EXCEPT !.sequence = (c.sequence + 1) % 256],
                                  rest)
        Head4(w1, plen) ==
            IF w1.n # 4 THEN [c |-> w1.c, err |-> TRUE]
            ELSE Body(ConnWrite(w1.c, Take(data, plen)), plen, Drop(data, plen))
        Chunk(plen) == Head4(ConnWrite(c, PacketHeader(plen, c.sequence)), plen)
    IN Chunk(IF BLen(data) >= MaxPayloadLen THEN MaxPayloadLen ELSE BLen(data))

\* conn.go Conn.WritePacket, the pending onWrite mark: a mutant forgets it
ResetOnWrite_Forgotten(c) == c

\* conn.go Conn.WritePacket: a pending onWrite mark zeroes the counter and is
\* consumed
ResetOnWrite(c) ==
    IF SeqResetOnWrite \in c.seqreset
    THEN [c EXCEPT !.seqreset = c.seqreset \ {SeqResetOnWrite}, !.sequence = 0]
    ELSE c

\* conn.go Conn.WritePacket
WritePacket(c, data) == WriteChunks(ResetOnWrite(c), data)

\* Results of the read operators: st is "ok", "err" (the call returns an
\* error) or "block" (the bytes the call waits for have not arrived); c and
\* rx are the Conn and the unread input after the call.
ReadResult(st, c, rx, n, data) ==
    [st |-> st, c |-> c, rx |-> rx, n |-> n, data |-> data]

\* compress.go Compressor.loadNextTrunk
LoadNextTrunk(c, rx) ==
    LET z0 == c.compressor
        z1 == IF SeqResetOnRead \in z0.seqreset
              THEN [z0 EXCEPT !.seqreset = z0.seqreset \ {SeqResetOnRead},
                              !.sequence = 0, !.readBuffer = <<>>]
              ELSE [z0 EXCEPT !.readBuffer = <<>>]
        c1 == [c EXCEPT !.compressor = z1]
        Done(buf) == [c1 EXCEPT !.compressor.readBuffer = buf,
                                !.compressor.sequence = (z1.sequence + 1) % 256]
        Body(uncompressedLen, payload, rx2) ==
            IF uncompressedLen = 0 THEN ReadResult("ok", Done(payload), rx2, 0, <<>>)
            ELSE IF ~IsZlibStream(payload) THEN ReadResult("err", c1, rx2, 0, <<>>)
            ELSE IF BLen(ZlibInflate(payload)) # uncompressedLen
                 THEN ReadResult("err",
                          [c1 EXCEPT !.compressor.readBuffer = ZlibInflate(payload)],
                          rx2, 0, <<>>)
            ELSE ReadResult("ok", Done(ZlibInflate(payload)), rx2, 0, <<>>)
        Frame(head, rx1) ==
            IF ~IsFrameHeader(head) THEN ReadResult("err", c1, rx1, 0, <<>>)
            ELSE IF head[1].b # z1.sequence THEN ReadResult("err", c1, rx1, 0, <<>>)
            ELSE IF BLen(rx1) < head[1].a THEN ReadResult("block", c, rx, 0, <<>>)
            ELSE Body(head[1].c, Take(rx1, head[1].a), Drop(rx1, head[1].a))
    IN IF BLen(rx) < 7 THEN ReadResult("block", c, rx, 0, <<>>)
       ELSE Frame(Take(rx, 7), Drop(rx, 7))

\* io.ReadFull / io.LimitedReader over compress.go Compressor.Read: n bytes,
\* drained from readBuffer, the next frame being loaded when it is empty
RECURSIVE CompressorReadFull(_, _, _, _)
CompressorReadFull(c, rx, n, acc) ==
    IF n = 0 THEN ReadResult("ok", c, rx, BLen(acc), acc)
    ELSE IF c.compressor.readBuffer # <<>>
    THEN LET Drain(k) ==
                 CompressorReadFull(
                     [c EXCEPT !.compressor.readBuffer =
                                   Drop(c.compressor.readBuffer, k)],
                     rx, n - k, Cat(acc, Take(c.compressor.readBuffer, k)))
             Avail(l) == Drain(IF l > n THEN n ELSE l)
         IN Avail(BLen(c.compressor.readBuffer))
    ELSE LET Loaded(t) ==
                 IF t.st = "ok" THEN CompressorReadFull(t.c, t.rx, n, acc)
                 ELSE ReadResult(t.st, t.c, t.rx, BLen(acc), acc)
         IN Loaded(LoadNextTrunk(c, rx))

\* reading n bytes from c.r: the compressor when compression is enabled, else
\* the bufio reader over the raw connection
ConnReadFull(c, rx, n) ==
    IF c.compressor.on THEN CompressorReadFull(c, rx, n, <<>>)
    ELSE IF BLen(rx) < n THEN ReadResult("block", c, rx, 0, <<>>)
    ELSE ReadResult("ok", c, Drop(rx, n), n, Take(rx, n))

\* a mutant of the sequence check that accepts every sequence byte
SequenceMatches_Any(sequence, c) == TRUE

\* conn.go Conn.ReadPartialPacket: sequence != c.sequence is an error
SequenceMatches(sequence, c) == sequence = c.sequence

\* a mutant of the onRead reset that clears every pending mark
ResetOnRead_ClearsAll(c) ==
    IF SeqResetOnRead \in c.seqreset
    THEN [c EXCEPT !.seqreset = SeqResetNone, !.sequence = 0]
    ELSE c

\* conn.go Conn.ReadPartialPacket: a pending onRead mark zeroes the counter
\* and is consumed
ResetOnRead(c) ==
    IF SeqResetOnRead \in c.seqreset
    THEN [c EXCEPT !.seqreset = c.seqreset \ {SeqResetOnRead}, !.sequence = 0]
    ELSE c

\* conn.go Conn.ReadPartialPacket; data is what the call appends to b
ReadPartialPacket(c, rx) ==
    LET Body(body, n) ==
            IF body.st = "block" THEN ReadResult("block", c, rx, 0, <<>>)
            ELSE IF body.st = "err"
                 THEN ReadResult("err", body.c, body.rx, body.n, body.data)
            ELSE ReadResult("ok", body.c, body.rx, n, body.data)
        Checked(h, c1) ==
            IF ~IsPacketHeader(h.data) THEN ReadResult("err", c1, h.rx, 0, <<>>)
            ELSE IF ~SequenceMatches(h.data[1].b, c1)
                 THEN ReadResult("err", c1, h.rx, 0, <<>>)
            ELSE Body(ConnReadFull([c1 EXCEPT !.sequence = (c1.sequence + 1) % 256],
                                   h.rx, h.data[1].a),
                      h.data[1].a)
        Head4(h) ==
            IF h.st = "block" THEN ReadResult("block", c, rx, 0, <<>>)
            ELSE IF h.st = "err" THEN ReadResult("err", h.c, h.rx, 0, <<>>)
            ELSE Checked(h, ResetOnRead(h.c))
    IN Head4(ConnReadFull(c, rx, 4))

\* conn.go Conn.ReadPacket: partial packets are appended to b until one is
\* shorter than MaxPayloadLen
RECURSIVE ReadPacketLoop(_, _, _, _, _)
ReadPacketLoop(c0, rx0, c, rx, b) ==
    LET Partial(r, b1) ==
            IF r.st = "block" THEN ReadResult("block", c0, rx0, 0, <<>>)
            ELSE IF r.st = "err" THEN ReadResult("err", r.c, r.rx, 0, b1)
            ELSE IF r.n < MaxPayloadLen THEN ReadResult("ok", r.c, r.rx, BLen(b1), b1)
            ELSE ReadPacketLoop(c0, rx0, r.c, r.rx, b1)
        Step(r) == Partial(r, Cat(b, r.data))
    IN Step(ReadPartialPacket(c, rx))

ReadPacket(c, rx) == ReadPacketLoop(c, rx, c, rx, <<>>)

\* conn.go Conn.ReadPartialPacket on the buffered reader of a connection
\* whose stream ends after the bytes rx.  readFull fails on a header that is
\* cut short.  The payload is read with b.ReadFrom(&io.LimitedReader{..}),
\* and bytes.Buffer.ReadFrom returns a nil error when its reader reports
\* io.EOF: a payload that is cut short is appended as far as it goes and the
\* call returns (readLen, nil).
ReadPartialPacketAtEnd(c, rx) ==
    LET r == ReadPartialPacket(c, rx)
        Cut(c1, sequence) ==
            IF ~SequenceMatches(sequence, c1) THEN ReadResult("err", c1, <<>>, 0, <<>>)
            ELSE ReadResult("ok", [c1 EXCEPT !.sequence = (c1.sequence + 1) % 256],
                            <<>>, BLen(rx) - 4, Drop(rx, 4))
    IN IF r.st # "block" THEN r
       ELSE IF BLen(rx) < 4 THEN ReadResult("err", c, <<>>, 0, <<>>)
       ELSE Cut(ResetOnRead(c), Take(rx, 4)[1].b)

\* conn.go Conn.ReadPacket on such a connection
RECURSIVE ReadPacketAtEnd(_, _, _)
ReadPacketAtEnd(c, rx, b) ==
    LET Partial(r, b1) ==
            IF r.st = "err" THEN ReadResult("err", r.c, r.rx, 0, b1)
            ELSE IF r.n < MaxPayloadLen THEN ReadResult("ok", r.c, r.rx, BLen(b1), b1)
            ELSE ReadPacketAtEnd(r.c, r.rx, b1)
        Step(r) == Partial(r, Cat(b, r.data))
    IN Step(ReadPartialPacketAtEnd(c, rx))

\* conn.go Conn.readFull on a connection the peer has closed: a read that
\* waits for bytes returns the error of io.ReadFull instead
AtEOF(r, closed) ==
    IF closed /\ r.st = "block" THEN [r EXCEPT !.st = "err"] ELSE r

----------------------------------------------------------------------------
(* Strings are sequences of bytes.                                         *)

\* the byte of a character of a string literal
Asc(ch) ==
    CASE ch = "." -> 46 [] ch = ":" -> 58
      [] ch = "0" -> 48 [] ch = "1" -> 49 [] ch = "2" -> 50
      [] ch = "4" -> 52 [] ch = "5" -> 53
      [] ch = "A" -> 65 [] ch = "C" -> 67
      [] ch = "a" -> 97 [] ch = "c" -> 99 [] ch = "e" -> 101
      [] ch = "i" -> 105 [] ch = "l" -> 108
      [] ch = "#" -> 35 [] ch = "H" -> 72 [] ch = "Y" -> 89 [] ch = "d" -> 100

\* a string literal, written as its characters
Str(text) == [i \in 1..Len(text) |-> Asc(text[i])]

\* strings.Index(s, sep) for a one-byte sep, counted from 1; 0 when absent
IndexByte(s, sep) ==
    IF \E i \in 1..Len(s) : s[i] = sep
    THEN CHOOSE i \in 1..Len(s) : s[i] = sep /\ \A j \in 1..(i - 1) : s[j] # sep
    ELSE 0

\* strings.SplitN(s, sep, 2)
SplitN2(s, sep) ==
    LET At(i) == IF i = 0 THEN <<s>>
                 ELSE <<SubSeq(s, 1, i - 1), SubSeq(s, i + 1, Len(s))>>
    IN At(IndexByte(s, sep))

\* unicode.SimpleFold on an ASCII byte, as its lower-case representative
ToLower(c) == IF c \in 65..90 THEN c + 32 ELSE c

EqualFold_CaseSensitive(s, t) == s = t

\* strings.EqualFold
EqualFold(s, t) ==
    /\ Len(s) = Len(t)
    /\ \A i \in 1..Len(s) : ToLower(s[i]) = ToLower(t[i])

\* BackendConfigs.Find: the loop from entry i on
RECURSIVE FindFrom(_, _, _)
FindFrom(b, cluster, i) ==
    IF i > Len(b) THEN cluster
    ELSE IF EqualFold(b[i].ClusterID, cluster) THEN b[i].Address
    ELSE FindFrom(b, cluster, i + 1)

Find(b, cluster) == FindFrom(b, cluster, 1)

\* regexp.MatchString(`:\d+$`, addr)
MatchPort(addr) ==
    \E i \in 1..(Len(addr) - 1) :
        /\ addr[i] = Asc(":")
        /\ \A j \in (i + 1)..Len(addr) : addr[j] \in 48..57

\* Gateway.getBackendAddr: the address returned and the res.UserName it leaves
getBackendAddr(UserName, BackendConfigs) ==
    LET Port(clusterAddr) ==
            IF MatchPort(clusterAddr) THEN clusterAddr
            ELSE clusterAddr \o Str(<<":", "4", "0", "0", "0">>)
        Split(splits) ==
            [addr |-> Port(Find(BackendConfigs, splits[1])),
             UserName |-> IF Len(splits) = 1 THEN <<>> ELSE splits[2],
             called |-> TRUE]
    IN Split(SplitN2(UserName, Asc(".")))

----------------------------------------------------------------------------
(* mysql.Buffer and the HandshakeResponse packet.                          *)
(*                                                                         *)
(* A capability word is the set of its bit positions; the flags are named  *)
(* by their position.  A map is the set of its <<key, value>> pairs.       *)

ClientConnectWithDB == 3
ClientCompress == 5
ClientProtocol41 == 9
ClientSSL == 11
ClientSecureConnection == 15
ClientPluginAuth == 19
ClientConnectAttrs == 20
ClientPluginAuthLenencClientData == 21

\* the plugin name no backend knows
AuthInvalidMethod == Str(<<"i", "l", "l">>)

\* binary.LittleEndian.PutUint16/32/64 and the 3-byte form
RECURSIVE WriteUint(_, _)
WriteUint(n, width) ==
    IF width = 0 THEN <<>> ELSE <<n % 256>> \o WriteUint(n \div 256, width - 1)

\* binary.LittleEndian.Uint16/32/64
RECURSIVE UintOf(_)
UintOf(bytes) ==
    IF bytes = <<>> THEN 0 ELSE Head(bytes) + 256 * UintOf(Tail(bytes))

\* Buffer.WriteUint32 of a capability word
WriteCapability(bits) ==
    [i \in 1..4 |->
        LET Bit(j) == IF 8 * (i - 1) + j \in bits THEN 2 ^ j ELSE 0
        IN Bit(0) + Bit(1) + Bit(2) + Bit(3) + Bit(4) + Bit(5) + Bit(6) + Bit(7)]

\* the capability word of 4 bytes
CapabilityOf(bytes) ==
    {n \in 0..31 : (bytes[(n \div 8) + 1] \div (2 ^ (n % 8))) % 2 = 1}

\* Buffer.WriteStringNull
WriteStringNull(str) == str \o <<0>>

\* a mutant of WriteLenencInt whose one-byte form goes up to 251
WriteLenencInt_OneByte251(n) ==
    IF n < 252 THEN <<n>>
    ELSE IF n < 65536 THEN <<252>> \o WriteUint(n, 2)
    ELSE IF n < 16777216 THEN <<253>> \o WriteUint(n, 3)
    ELSE <<254>> \o WriteUint(n, 8)

\* Buffer.WriteLenencInt
WriteLenencInt(n) ==
    IF n < 251 THEN <<n>>
    ELSE IF n < 65536 THEN <<252>> \o WriteUint(n, 2)
    ELSE IF n < 16777216 THEN <<253>> \o WriteUint(n, 3)
    ELSE <<254>> \o WriteUint(n, 8)

\* Buffer.WriteLenencString
WriteLenencString(str) == WriteLenencInt(Len(str)) \o str

\* what a read returns: ok is "err == nil", v the value, b the bytes left
Got(ok, v, b) == [ok |-> ok, v |-> v, b |-> b]

\* Buffer.ReadBytes; bytes.Buffer.Next drains a buffer that is too short
ReadBytes(b, n) ==
    IF Len(b) >= n THEN Got(TRUE, SubSeq(b, 1, n), SubSeq(b, n + 1, Len(b)))
    ELSE Got(FALSE, <<>>, <<>>)

\* Buffer.ReadByte
ReadByte(b) ==
    IF b = <<>> THEN Got(FALSE, 0, <<>>) ELSE Got(TRUE, Head(b), Tail(b))

\* Buffer.ReadUint16/24/32/64
ReadUint(b, width) ==
    IF Len(b) >= width
    THEN Got(TRUE, UintOf(SubSeq(b, 1, width)), SubSeq(b, width + 1, Len(b)))
    ELSE Got(FALSE, 0, <<>>)

\* Buffer.ReadStringNull
ReadStringNull(b) ==
    LET At(i) == IF i = 0 THEN Got(FALSE, <<>>, <<>>)
                 ELSE Got(TRUE, SubSeq(b, 1, i - 1), SubSeq(b, i + 1, Len(b)))
    IN At(IndexByte(b, 0))

\* Buffer.ReadLenencInt
ReadLenencInt(b) ==
    IF b = <<>> THEN Got(FALSE, 0, <<>>)
    ELSE IF Head(b) < 252 THEN Got(TRUE, Head(b), Tail(b))
    ELSE IF Head(b) = 252 THEN ReadUint(Tail(b), 2)
    ELSE IF Head(b) = 253 THEN ReadUint(Tail(b), 3)
    ELSE IF Head(b) = 254 THEN ReadUint(Tail(b), 8)
    ELSE Got(FALSE, 0, Tail(b))

\* Buffer.ReadLenencString
ReadLenencString(b) ==
    LET Str1(n) == IF n.ok THEN ReadBytes(n.b, n.v) ELSE Got(FALSE, <<>>, n.b)
    IN Str1(ReadLenencInt(b))

\* the zero HandshakeResponse
NoResponse ==
    [Capability |-> {}, MaxPacketSize |-> 0, CharacterSet |-> 0,
     UserName |-> <<>>, DBName |-> <<>>, Auth |-> <<>>, AuthPlugin |-> <<>>,
     Attrs |-> {}]

\* s.Attrs[k] = v
MapSet(attrs, k, v) == {p \in attrs : p[1] # k} \cup {<<k, v>>}

\* the orders in which range s.Attrs can yield the pairs
MapOrders(attrs) ==
    {o \in [1..Cardinality(attrs) -> attrs] :
        \A i, j \in 1..Cardinality(attrs) : i # j => o[i] # o[j]}

\* HandshakeResponse.Write: the loop over s.Attrs
RECURSIVE WriteAttrs(_)
WriteAttrs(order) ==
    IF order = <<>> THEN <<>>
    ELSE WriteLenencString(Head(order)[1]) \o WriteLenencString(Head(order)[2])
             \o WriteAttrs(Tail(order))

\* HandshakeResponse.Write; order is the order range s.Attrs yields
HandshakeResponseWrite(s, order) ==
    IF ClientProtocol41 \notin s.Capability
    THEN WriteCapability(s.Capability) \o WriteUint(s.MaxPacketSize, 3)
             \o WriteStringNull(s.UserName) \o s.Auth
             \o (IF ClientConnectWithDB \in s.Capability
                 THEN <<0>> \o s.DBName \o <<0>> ELSE <<>>)
    ELSE WriteCapability(s.Capability) \o WriteUint(s.MaxPacketSize, 4)
             \o <<s.CharacterSet>> \o [i \in 1..23 |-> 0]
             \o WriteStringNull(s.UserName)
             \o (IF ClientPluginAuthLenencClientData \in s.Capability
                 THEN WriteLenencString(s.Auth)
                 ELSE IF ClientSecureConnection \in s.Capability
                 THEN <<Len(s.Auth) % 256>> \o s.Auth
                 ELSE WriteStringNull(s.Auth))
             \o (IF ClientConnectWithDB \in s.Capability
                 THEN WriteStringNull(s.DBName) ELSE <<>>)
             \o (IF ClientPluginAuth \in s.Capability
                 THEN WriteStringNull(s.AuthPlugin) ELSE <<>>)
             \o (IF ClientConnectAttrs \in s.Capability
                 THEN WriteLenencInt(Len(WriteAttrs(order))) \o WriteAttrs(order)
                 ELSE <<>>)

\* what Read returns: err and the fields set so far
Decoded(err, s) == [err |-> err, s |-> s]

\* HandshakeResponse.Read: the loop over the attribute bytes
RECURSIVE ReadAttrs(_, _)
ReadAttrs(ab, s) ==
    IF ab = <<>> THEN Decoded(FALSE, s)
    ELSE LET Val(k, v) == IF ~v.ok THEN Decoded(TRUE, s)
                          ELSE ReadAttrs(v.b, [s EXCEPT !.Attrs = MapSet(s.Attrs, k.v, v.v)])
             Key(k) == IF ~k.ok THEN Decoded(TRUE, s)
                       ELSE Val(k, ReadLenencString(k.b))
         IN Key(ReadLenencString(ab))

\* HandshakeResponse.Read, old format, after the capability flags
ReadResponse320(s, b0) ==
    LET Db(s3, d) == IF ~d.ok THEN Decoded(TRUE, s3)
                     ELSE Decoded(FALSE, [s3 EXCEPT !.DBName = d.v])
        AuthDb(s2, a) == IF ~a.ok THEN Decoded(TRUE, s2)
                         ELSE Db([s2 EXCEPT !.Auth = a.v], ReadStringNull(a.b))
        User(s1, u) ==
            IF ~u.ok THEN Decoded(TRUE, s1)
            ELSE IF ClientConnectWithDB \in s.Capability
            THEN AuthDb([s1 EXCEPT !.UserName = u.v], ReadStringNull(u.b))
            ELSE Decoded(FALSE, [s1 EXCEPT !.UserName = u.v, !.Auth = u.b])
        Max(m) == IF ~m.ok THEN Decoded(TRUE, s)
                  ELSE User([s EXCEPT !.MaxPacketSize = m.v], ReadStringNull(m.b))
    IN Max(ReadUint(b0, 3))

\* HandshakeResponse.Read, new format, from the auth response on
ReadResponseTail(s, b0) ==
    LET AttrData(s4, d) == IF ~d.ok THEN Decoded(TRUE, s4) ELSE ReadAttrs(d.v, s4)
        AttrLen(s4, l) == IF ~l.ok THEN Decoded(TRUE, s4)
                          ELSE AttrData(s4, ReadBytes(l.b, l.v))
        Attrs(s4, b4) == IF ClientConnectAttrs \in s.Capability
                         THEN AttrLen(s4, ReadLenencInt(b4))
                         ELSE Decoded(FALSE, s4)
        PluginName(s3, p) == IF ~p.ok THEN Decoded(TRUE, s3)
                             ELSE Attrs([s3 EXCEPT !.AuthPlugin = p.v], p.b)
        Plugin(s3, b3) == IF ClientPluginAuth \in s.Capability
                          THEN PluginName(s3, ReadStringNull(b3))
                          ELSE Attrs(s3, b3)
        DbName(s2, d) == IF ~d.ok THEN Decoded(TRUE, s2)
                         ELSE Plugin([s2 EXCEPT !.DBName = d.v], d.b)
        Db(s2, b2) == IF ClientConnectWithDB \in s.Capability
                      THEN DbName(s2, ReadStringNull(b2))
                      ELSE Plugin(s2, b2)
        AuthData(a) == IF ~a.ok THEN Decoded(TRUE, s)
                       ELSE Db([s EXCEPT !.Auth = a.v], a.b)
        AuthLen(l) == IF ~l.ok THEN Decoded(TRUE, s)
                      ELSE AuthData(ReadBytes(l.b, l.v))
    IN IF ClientPluginAuthLenencClientData \in s.Capability
       THEN AuthLen(ReadLenencInt(b0))
       ELSE IF ClientSecureConnection \in s.Capability
       THEN AuthLen(ReadByte(b0))
       ELSE AuthData(ReadStringNull(b0))

\* HandshakeResponse.Read, new format, after the capability flags
ReadResponse41(s, b0) ==
    LET User(s3, u) == IF ~u.ok THEN Decoded(TRUE, s3)
                       ELSE ReadResponseTail([s3 EXCEPT !.UserName = u.v], u.b)
        Reserved(s2, r) == IF ~r.ok THEN Decoded(TRUE, s2)
                           ELSE User(s2, ReadStringNull(r.b))
        Charset(s1, c) == IF ~c.ok THEN Decoded(TRUE, s1)
                          ELSE Reserved([s1 EXCEPT !.CharacterSet = c.v], ReadBytes(c.b, 23))
        Max(m) == IF ~m.ok THEN Decoded(TRUE, s)
                  ELSE Charset([s EXCEPT !.MaxPacketSize = m.v], ReadByte(m.b))
    IN Max(ReadUint(b0, 4))

\* HandshakeResponse.Read into a zero value
HandshakeResponseRead(b0) ==
    LET Cap(c) ==
            IF ~c.ok THEN ReadResponse320(NoResponse, c.b)
            ELSE IF ClientProtocol41 \notin CapabilityOf(c.v)
            THEN ReadResponse320([NoResponse EXCEPT !.Capability = CapabilityOf(c.v)], c.b)
            ELSE ReadResponse41([NoResponse EXCEPT !.Capability = CapabilityOf(c.v)], c.b)
    IN Cap(ReadBytes(b0, 4))

----------------------------------------------------------------------------
(* The InitialHandshake packet.                                            *)

DefaultHandshakeVersion == 10

\* the capability word Handshake packets are sent with
DefaultCapability ==
    {ClientProtocol41, ClientSecureConnection, ClientPluginAuth,
     ClientConnectWithDB, ClientCompress, ClientSSL,
     ClientPluginAuthLenencClientData}

\* the zero Handshake
NoHandshake ==
    [ProtocolVersion |-> 0, ServerVersion |-> <<>>, ConnectionID |-> 0,
     AuthPluginData |-> <<>>, Capability |-> {}, CharacterSet |-> 0,
     StatusFlags |-> 0, AuthPluginName |-> <<>>]

\* make([]byte, n)
Zeros(n) == [i \in 1..n |-> 0]

\* a mutant of Handshake.Write that leaves out the filler after the second
\* part of the auth-plugin data
HandshakeWrite_NoFiller(s) ==
    <<s.ProtocolVersion>> \o WriteStringNull(s.ServerVersion)
        \o WriteUint(s.ConnectionID, 4)
        \o SubSeq(s.AuthPluginData, 1, 8) \o <<0>>
        \o SubSeq(WriteCapability(s.Capability), 1, 2)
        \o <<s.CharacterSet>> \o WriteUint(s.StatusFlags, 2)
        \o SubSeq(WriteCapability(s.Capability), 3, 4)
        \o (IF ClientPluginAuth \in s.Capability
            THEN <<(Len(s.AuthPluginData) + 1) % 256>> ELSE <<0>>)
        \o Zeros(10)
        \o (IF ClientSecureConnection \in s.Capability
            THEN SubSeq(s.AuthPluginData, 9, Len(s.AuthPluginData))
            ELSE <<>>)
        \o (IF ClientPluginAuth \in s.Capability
            THEN WriteStringNull(s.AuthPluginName) ELSE <<>>)

\* Handshake.Write
HandshakeWrite(s) ==
    <<s.ProtocolVersion>> \o WriteStringNull(s.ServerVersion)
        \o WriteUint(s.ConnectionID, 4)
        \o SubSeq(s.AuthPluginData, 1, 8) \o <<0>>
        \o SubSeq(WriteCapability(s.Capability), 1, 2)
        \o <<s.CharacterSet>> \o WriteUint(s.StatusFlags, 2)
        \o SubSeq(WriteCapability(s.Capability), 3, 4)
        \o (IF ClientPluginAuth \in s.Capability
            THEN <<(Len(s.AuthPluginData) + 1) % 256>> ELSE <<0>>)
        \o Zeros(10)
        \o (IF ClientSecureConnection \in s.Capability
            THEN SubSeq(s.AuthPluginData, 9, Len(s.AuthPluginData))
                     \o (IF Len(s.AuthPluginData) - 8 < 13
                         THEN Zeros(13 - (Len(s.AuthPluginData) - 8)) ELSE <<>>)
            ELSE <<>>)
        \o (IF ClientPluginAuth \in s.Capability
            THEN WriteStringNull(s.AuthPluginName) ELSE <<>>)

\* Handshake.Read of protocol version 10, from the character set on
HandshakeReadTail(s, b0) ==
    LET Name(s5, n) == IF ~n.ok THEN Decoded(TRUE, s5)
                       ELSE Decoded(FALSE, [s5 EXCEPT !.AuthPluginName = n.v])
        Plugin(s5, b5) == IF ClientPluginAuth \in s5.Capability
                          THEN Name(s5, ReadStringNull(b5))
                          ELSE Decoded(FALSE, s5)
        Skipped(s4, data, k) ==
            IF ~k.ok THEN Decoded(TRUE, s4)
            ELSE Plugin([s4 EXCEPT !.AuthPluginData = @ \o data], k.b)
        Part2(s4, l, d) ==
            IF ~d.ok THEN Decoded(TRUE, s4)
            ELSE IF l < 13 THEN Skipped(s4, d.v, ReadBytes(d.b, 13 - l))
            ELSE Plugin([s4 EXCEPT !.AuthPluginData = @ \o d.v], d.b)
        \* bytes.Buffer.Next does not take a negative count
        Secure(s4, l, b4) == IF l < 0 THEN Decoded(TRUE, s4)
                             ELSE Part2(s4, l, ReadBytes(b4, l))
        Reserved(s4, authDataLen, r) ==
            IF ~r.ok THEN Decoded(TRUE, s4)
            ELSE IF ClientSecureConnection \in s4.Capability
            THEN Secure(s4, authDataLen - 8 - 1, r.b)
            ELSE Plugin(s4, r.b)
        AuthLen(s4, a) == IF ~a.ok THEN Decoded(TRUE, s4)
                          ELSE Reserved(s4, a.v, ReadBytes(a.b, 10))
        CapHigh(s3, h) ==
            IF ~h.ok THEN Decoded(TRUE, s3)
            ELSE AuthLen([s3 EXCEPT !.Capability =
                             @ \cup {n + 16 : n \in CapabilityOf(h.v \o <<0, 0>>)}],
                         ReadByte(h.b))
        Status(s2, f) == IF ~f.ok THEN Decoded(TRUE, s2)
                         ELSE CapHigh([s2 EXCEPT !.StatusFlags = f.v], ReadBytes(f.b, 2))
        Charset(c) == IF ~c.ok THEN Decoded(TRUE, s)
                      ELSE Status([s EXCEPT !.CharacterSet = c.v], ReadUint(c.b, 2))
    IN Charset(ReadByte(b0))

\* Handshake.Read into a zero value
HandshakeRead(b0) ==
    LET CapLow(s4, l) ==
            IF ~l.ok THEN Decoded(TRUE, s4)
            ELSE IF l.b = <<>>
            THEN Decoded(FALSE, [s4 EXCEPT !.Capability = CapabilityOf(l.v \o <<0, 0>>)])
            ELSE HandshakeReadTail(
                     [s4 EXCEPT !.Capability = CapabilityOf(l.v \o <<0, 0>>)], l.b)
        Filler(s4, f) == IF ~f.ok THEN Decoded(TRUE, s4)
                         ELSE CapLow(s4, ReadBytes(f.b, 2))
        Part1(s3, d) == IF ~d.ok THEN Decoded(TRUE, s3)
                        ELSE Filler([s3 EXCEPT !.AuthPluginData = d.v], ReadByte(d.b))
        Scramble(s3, x) == IF ~x.ok THEN Decoded(TRUE, s3)
                           ELSE Decoded(FALSE, [s3 EXCEPT !.AuthPluginData = x.v])
        ConnID(s2, c) ==
            IF ~c.ok THEN Decoded(TRUE, s2)
            ELSE IF s2.ProtocolVersion = 9
            THEN Scramble([s2 EXCEPT !.ConnectionID = c.v], ReadStringNull(c.b))
            ELSE Part1([s2 EXCEPT !.ConnectionID = c.v], ReadBytes(c.b, 8))
        Version(s1, v) == IF ~v.ok THEN Decoded(TRUE, s1)
                          ELSE ConnID([s1 EXCEPT !.ServerVersion = v.v], ReadUint(v.b, 4))
        Proto(p) ==
            IF ~p.ok THEN Decoded(TRUE, NoHandshake)
            ELSE IF p.v \notin {9, 10}
            THEN Decoded(TRUE, [NoHandshake EXCEPT !.ProtocolVersion = p.v])
            ELSE Version([NoHandshake EXCEPT !.ProtocolVersion = p.v],
                         ReadStringNull(p.b))
    IN Proto(ReadByte(b0))

----------------------------------------------------------------------------
(* The packets of a session and handleConn's helpers.                      *)

ErrCodeUnknown == 1105
UnknownState == Str(<<"H", "Y", "0", "0", "0">>)

\* a mutant of SetRawConn that starts the counter again as NewConn does
SetRawConn_FromZero(c) == [c EXCEPT !.wbuf = <<>>, !.sequence = 0]

\* Conn.SetRawConn: a fresh reader and writer; the sequence counter stays
SetRawConn(c) == [c EXCEPT !.wbuf = <<>>]

\* Conn.SendPacket of a packet whose Write gives data
SendPacket(c, data) ==
    LET Written(w) == IF w.err THEN w ELSE [c |-> Flush(w.c), err |-> FALSE]
    IN Written(WritePacket(c, data))

\* sendInitialHandshake: Handshake.Write of the greeting, by its length (the
\* 12 bytes of "5.7.25-TiDB\0", 20 bytes of auth-plugin data, the 22 bytes
\* of "mysql_native_password\0")
Handshake(connID) ==
    Payload(connID, DefaultHandshakeVersion,
            1 + 12 + 4 + 8 + 1 + 2 + 1 + 2 + 2 + 1 + 10 + 13 + 22)

\* recvInitialHandshake: err != nil.  Handshake.Read rejects a first byte
\* other than 9 and 10; the rest of a greeting is taken to be well formed.
HandshakeReadErr(data) ==
    \/ data = <<>>
    \/ FirstByte(data) \notin {9, DefaultHandshakeVersion}

\* sendErr: Err.Write of the packet handleConn builds around msg
ErrPacket(msg) ==
    Raw(<<HeaderErr>> \o WriteUint(ErrCodeUnknown, 2) \o <<Asc("#")>>
            \o UnknownState \o msg)

\* a mutant of sendErr that builds the packet and does not send it
sendErr_NotSent(c, msg) == c

\* Gateway.sendErr; the error of SendPacket is dropped
sendErr(c, msg) == SendPacket(c, ErrPacket(msg)).c

\* err.Error() of a failed step
ErrText(step) ==
    CASE step = "connectBackend" -> Str(<<"d">>)
      [] step = "recvInitialHandshake" -> Str(<<"H">>)
      [] step = "tlsClient" -> Str(<<"Y">>)
      [] OTHER -> Str(<<"e">>)

MutateResponse_KeepCompress(res, c) ==
    [res EXCEPT
        !.Capability =
            (res.Capability \ (IF c.BackendInsecureTransport
                               THEN {ClientSecureConnection} ELSE {}))
                \cup {ClientPluginAuth},
        !.AuthPlugin = AuthInvalidMethod]

\* handleConn: what it changes in res between recvInitialHandshake and
\* backendConn.SendPacket(res)
MutateResponse(res, c) ==
    [res EXCEPT
        !.Capability =
            ((res.Capability \ {ClientCompress})
                 \ (IF c.BackendInsecureTransport
                    THEN {ClientSecureConnection} ELSE {}))
                \cup {ClientPluginAuth},
        !.AuthPlugin = AuthInvalidMethod]

\* a mutant of handleConn that never upgrades the backend connection
NeedsBackendTLS_Never(res) == FALSE

\* handleConn: res.Capability&mysql.ClientSSL != 0, after the first
\* backendConn.SendPacket(res)
NeedsBackendTLS(res) == ClientSSL \in res.Capability

\* a mutant of the test that ends the auth exchange on OK only
IsTerminal_OnlyOK(data) == data # <<>> /\ FirstByte(data) = HeaderOK

\* a mutant of the test that ends the auth exchange after any backend packet
IsTerminal_Always(data) == TRUE

\* exchangeAuth: len(data) > 0 && (data[0] == HeaderOK || data[0] == HeaderErr)
IsTerminal(data) == data # <<>> /\ FirstByte(data) \in {HeaderOK, HeaderErr}

\* the deferred calls of handleConn, run last in first out: "wg.Done" is
\* g.wg.Done(), any other entry names the Conn whose Close is deferred
RECURSIVE RunDefers(_)
RunDefers(s) ==
    IF s.defers = <<>> THEN s
    ELSE LET d == s.defers[Len(s.defers)]
             rest == SubSeq(s.defers, 1, Len(s.defers) - 1)
         IN RunDefers(IF d = "wg.Done"
                      THEN [s EXCEPT !.defers = rest, !.wg = @ - 1]
                      ELSE [s EXCEPT !.defers = rest, !.closed = @ \cup {d}])

\* a mutant of the return that does not run the deferred backendConn.Close()
Exit_BackendLeft(s, reason) ==
    RunDefers([s EXCEPT !.pc = "done", !.exit = reason, !.res = NoResponse,
                        !.backendAddr = <<>>,
                        !.defers = SelectSeq(@, LAMBDA d : d # "backendConn")])

\* handleConn returns: the deferred calls run
Exit(s, reason) ==
    RunDefers([s EXCEPT !.pc = "done", !.exit = reason, !.res = NoResponse,
                        !.backendAddr = <<>>])

\* a mutant of copyPacket that numbers what it forwards from 0, as the relay
\* loops do
copyPacket_Renumbered(dst, r) ==
    LET Out(st, d, data, wire) ==
            [st |-> st, dst |-> d, src |-> r.c, rx |-> r.rx, data |-> data,
             seq |-> 0, wire |-> wire]
        Written(w) ==
            IF w.err THEN Out("err", w.c, r.data, Drop(w.c.tx, BLen(dst.tx)))
            ELSE Out("ok", Flush(w.c), r.data, Drop(Flush(w.c).tx, BLen(dst.tx)))
    IN IF r.st = "block" THEN Out("block", dst, <<>>, <<>>)
       ELSE IF r.st = "err" THEN Out("err", dst, <<>>, <<>>)
       ELSE Written(WritePacket(SetResetOption(dst, {SeqResetOnWrite}), r.data))

\* copyPacket(dst, src), r being what src.ReadPacket(&b) did: the two Conns
\* after it, the payload, the error, and the bytes that reached dst's
\* connection
copyPacket(dst, r) ==
    LET Out(st, d, data, wire) ==
            [st |-> st, dst |-> d, src |-> r.c, rx |-> r.rx, data |-> data,
             seq |-> dst.sequence, wire |-> wire]
        Written(w) ==
            IF w.err THEN Out("err", w.c, r.data, Drop(w.c.tx, BLen(dst.tx)))
            ELSE Out("ok", Flush(w.c), r.data, Drop(Flush(w.c).tx, BLen(dst.tx)))
    IN IF r.st = "block" THEN Out("block", dst, <<>>, <<>>)
       ELSE IF r.st = "err" THEN Out("err", dst, <<>>, <<>>)
       ELSE Written(WritePacket(dst, r.data))

\* handleConn: the relay it runs, RelayPackets or RelayRawBytes
RelayOf(enableCompress) == IF enableCompress THEN "packets" ELSE "raw"

\* a mutant of the relay start that wraps both connections
StartRelay_BothCompressed(conns, compress) ==
    [conns EXCEPT
        !["conn"] = SetResetOption(IF compress THEN EnableCompression(@) ELSE @,
                                   SeqResetBoth),
        !["backendConn"] = SetResetOption(IF compress THEN EnableCompression(@) ELSE @,
                                          SeqResetBoth)]

\* RelayRawBytes / RelayPackets: the SetResetOption calls they start with,
\* after conn.EnableCompression() when the client asked for compression
StartRelay(conns, compress) ==
    [conns EXCEPT
        !["conn"] = SetResetOption(IF compress THEN EnableCompression(@) ELSE @,
                                   SeqResetBoth),
        !["backendConn"] = SetResetOption(@, SeqResetBoth)]

----------------------------------------------------------------------------
(* State.                                                                  *)

VARIABLES
    \* --- one Conn driven call by call (SpecWire) ---
    wc,         \* the Conn
    wlast,      \* the last call on wc and what it did (history)
    wcount,     \* WritePacket calls since NewConn while nothing else was called
    \* --- two Conns joined by in-order pipes (SpecFrame) ---
    fconn,      \* the two Conns, "client" and "server"
    fsent,      \* payloads the sender has passed to WritePacket in this batch
    frcvd,      \* payloads the receiver's ReadPacket calls returned in this batch
    fstate,     \* whose turn it is, errors, and what was called so far (history)
    \* --- one getBackendAddr call (SpecRoute) ---
    rin,        \* res.UserName and conf.BackendConfigs of the call
    rout,       \* what the call returned and left in res.UserName
    \* --- one session: handleConn, its client and its backend (SpecSession) ---
    conf,       \* g.conf
    sess,       \* handleConn: where it is (pc) and its local variables
    sconn,      \* handleConn's conn and backendConn, the client's and the
                \* backend's own ends
    shist,      \* what the client, the backend and the session did (history)
    \* --- the Gateway: Stop, serve and its handleConn goroutines (SpecGateway) ---
    gw,         \* g.quit, g.l, g.wg and where each goroutine is
    ghist,      \* how things stood when Stop was called: no session short of
                \* its relay, no connection waiting, the relays running; and
                \* whether a client connected later (history)
    \* --- one mysql.Buffer written and read value by value (SpecCodec) ---
    cbuf,       \* the bytes of the Buffer
    chist,      \* the values whose encodings are in the Buffer, and the last
                \* call with what it returned (history)
    \* --- RelayPackets and its two goroutines (SpecRelay); the end of the
    \* --- auth exchange and RelayRawBytes (SpecRaw) ---
    pconn,      \* remote ("conn") and backend ("backendConn")
    pwire,      \* the bytes on their way to the gateway, from the client and
                \* from the backend; in SpecRaw also the bytes held by the
                \* bufio.Reader of each Conn
    ptask,      \* copyInboundPackets and copyOutboundPackets: where each is
                \* and its buffer b; errCh; in SpecRaw where handleConn and
                \* the two io.Copy goroutines are
    phist       \* the packets the client and the backend sent, the packets
                \* written to remote, and which goroutine changed which
                \* counter (history)

wireVars == <<wc, wlast, wcount>>
frameVars == <<fconn, fsent, frcvd, fstate>>
routeVars == <<rin, rout>>
sessVars == <<conf, sess, sconn, shist>>
gwVars == <<gw, ghist>>
codecVars == <<cbuf, chist>>
relayVars == <<pconn, pwire, ptask, phist>>

vars == <<wireVars, frameVars, routeVars, sessVars, gwVars, codecVars, relayVars>>

\* what the steps of one specification leave alone
notWire == <<frameVars, routeVars, sessVars, gwVars, codecVars, relayVars>>
notFrame == <<wireVars, routeVars, sessVars, gwVars, codecVars, relayVars>>
notRoute == <<wireVars, frameVars, sessVars, gwVars, codecVars, relayVars>>
notSess == <<wireVars, frameVars, routeVars, gwVars, codecVars, relayVars>>
notGw == <<wireVars, frameVars, routeVars, sessVars, codecVars, relayVars>>
notCodec == <<wireVars, frameVars, routeVars, sessVars, gwVars, relayVars>>
notRelay == <<wireVars, frameVars, routeVars, sessVars, gwVars, codecVars>>

----------------------------------------------------------------------------
(* SpecWire: a single Conn; its caller issues WritePacket, SetResetOption  *)
(* and ReadPartialPacket calls one after the other, the peer sends wire    *)
(* packets with sequence bytes of its choice.                              *)

\* payload lengths written in SpecWire
WireLens == {0, 1, MaxPayloadLen - 1, MaxPayloadLen, 2 * MaxPayloadLen}
\* WritePacket calls followed from a fresh Conn (past the wrap at 256)
MaxWrites == 258

NoCall == [op |-> "none"]

\* the other end of the pipes
Peer(end) == IF end = "client" THEN "server" ELSE "client"

\* makeConnPair / makeConnPairWithCompression
FrameStart(compress) ==
    /\ fconn = [end \in {"client", "server"} |->
                   IF compress THEN EnableCompression(NewConn) ELSE NewConn]
    /\ fsent = <<>>
    /\ frcvd = <<>>
    /\ fstate = [sender |-> "client", closed |-> FALSE, exch |-> 0, err |-> "none",
                 compress |-> compress, noReset |-> TRUE, paired |-> TRUE,
                 short |-> TRUE, fits |-> TRUE]

\* the pair of Conns before its first call
FrameIdle == FrameStart(FALSE)

\* no getBackendAddr call
NoRoute == [addr |-> <<>>, UserName |-> <<>>, called |-> FALSE]

RouteIdle ==
    /\ rin = [UserName |-> <<>>, BackendConfigs |-> <<>>]
    /\ rout = NoRoute

\* a Config without backends
NoConf ==
    [BackendConfigs |-> <<>>, EnableCompression |-> FALSE,
     BackendInsecureTransport |-> FALSE]

\* handleConn is entered: the accepted connection and nothing else
SessStart(c) ==
    /\ conf = c
    /\ sess = [pc |-> "greet", res |-> NoResponse, backendAddr |-> <<>>,
               enableCompress |-> FALSE, dialed |-> FALSE, exit |-> "none",
               closed |-> {}, relay |-> "none", wg |-> 1,
               defers |-> <<"wg.Done", "conn">>]
    /\ sconn = [e \in {"conn", "backendConn", "client", "backend"} |-> NewConn]
    /\ shist = [first |-> "none", second |-> FALSE, greeted |-> FALSE,
                decoded |-> NoResponse, sent |-> <<>>, log |-> <<>>,
                beSent |-> <<>>, cliSent |-> <<>>, cliRcvd |-> <<>>,
                cliErr |-> FALSE, short |-> TRUE, compress |-> FALSE,
                dials |-> 0, hangup |-> FALSE, copies |-> <<>>,
                beTLS |-> "none"]

SessIdle == SessStart(NoConf)

\* connections the listener takes over the Gateway's life
MaxSessions == 2

\* handleConn before it is started
NoSession == [pc |-> "none", mode |-> "none", copiers |-> 0, errCh |-> 0]

\* New: the Gateway with its listener, before StartServe
GwIdle ==
    /\ gw = [quit |-> FALSE, l |-> "open", backlog |-> 0, wg |-> 0,
             serve |-> "none", stop |-> "idle", connectionID |-> 0,
             conns |-> [s \in 1..MaxSessions |-> NoSession]]
    /\ ghist = [stopClean |-> FALSE, late |-> FALSE, relaying |-> {},
                ids |-> <<>>]

\* newBuffer(nil), before its first call
CodecIdle ==
    /\ cbuf = <<>>
    /\ chist = [vals |-> <<>>, cut |-> 0, op |-> "none"]

\* a goroutine of RelayPackets before it is started
NoTask == [pc |-> "none", b |-> <<>>]

\* the counters of a Conn: its own and the compression layer's
Counters == {"sequence", "compressor.sequence"}

\* handleConn before RelayPackets, with its two connections
RelayStart(conns) ==
    /\ pconn = conns
    /\ pwire = [client |-> <<>>, backend |-> <<>>]
    /\ ptask = [inbound |-> NoTask, outbound |-> NoTask, errCh |-> <<>>,
                closed |-> FALSE]
    /\ phist = [cmds |-> <<>>, sent |-> <<>>, replies |-> <<>>, nrep |-> 0,
                final |-> FALSE, relayed |-> <<>>, fits |-> TRUE,
                writers |-> [e \in {"conn", "backendConn"} |->
                                [f \in Counters |-> {}]]]

RelayIdle == RelayStart([e \in {"conn", "backendConn"} |-> NewConn])

WireInit ==
    /\ wc = NewConn
    /\ wlast = NoCall
    /\ wcount = 0
    /\ FrameIdle
    /\ RouteIdle
    /\ SessIdle
    /\ GwIdle
    /\ CodecIdle
    /\ RelayIdle

\* the packet headers among the bytes bs, as <<payload length, sequence>>
RECURSIVE HeadersOf(_)
HeadersOf(bs) ==
    IF bs = <<>> THEN <<>>
    ELSE IF Head(bs).k = "hdr"
         THEN <<[plen |-> Head(bs).a, seq |-> Head(bs).b]>> \o HeadersOf(Tail(bs))
         ELSE HeadersOf(Tail(bs))

\* c.WritePacket(data); c.Flush(), the peer reading everything written
WireWrite(len) ==
    /\ wcount < MaxWrites
    /\ LET Done(err, f, hdrs) ==
               /\ wc' = [f EXCEPT !.tx = <<>>]
               /\ wlast' = [op |-> "write", len |-> len, err |-> err,
                            mark |-> SeqResetOnWrite \in wc.seqreset,
                            before |-> wc.sequence,
                            hdrs |-> hdrs,
                            body |-> BLen(f.tx) - 4 * Len(hdrs)]
           Flushed(err, f) == Done(err, f, HeadersOf(f.tx))
           Written(r) == Flushed(r.err, Flush(r.c))
       IN Written(WritePacket(wc, Payload(1, OtherByte, len)))
    /\ wcount' = IF (wcount > 0 \/ wlast = NoCall) /\ len < MaxPayloadLen
                 THEN wcount + 1 ELSE 0
    /\ UNCHANGED notWire

\* c.SetResetOption(opt)
WireReset(opt) ==
    /\ wc' = SetResetOption(wc, opt)
    /\ wlast' = [op |-> "reset", opt |-> opt]
    /\ wcount' = 0
    /\ UNCHANGED notWire

\* the peer sends one wire packet with sequence byte seq; c.ReadPartialPacket(&b)
WireRead(seq, len) ==
    LET Done(data, r) ==
            /\ wlast.op # "readEnded"
            /\ wc' = r.c
            /\ wlast' = [op |-> "read", seq |-> seq, sent |-> data,
                         mark |-> SeqResetOnRead \in wc.seqreset,
                         before |-> wc.sequence, st |-> r.st, n |-> r.n,
                         appended |-> r.data, unread |-> r.rx]
            /\ wcount' = 0
            /\ UNCHANGED notWire
        Sent(data) == Done(data, ReadPartialPacket(wc, Cat(PacketHeader(len, seq), data)))
    IN Sent(Payload(2, OtherByte, len))

\* a packet as the client and the backend put it on the wire: the chunks
\* ReadPacket takes for one packet, each with the header ReadPartialPacket
\* parses, the last one shorter than MaxPayloadLen (and so empty after a
\* payload that is a multiple of MaxPayloadLen long)
RECURSIVE PeerFrames(_, _)
PeerFrames(data, seq) ==
    IF BLen(data) >= MaxPayloadLen
    THEN Cat(Cat(PacketHeader(MaxPayloadLen, seq), Take(data, MaxPayloadLen)),
             PeerFrames(Drop(data, MaxPayloadLen), (seq + 1) % 256))
    ELSE Cat(PacketHeader(BLen(data), seq), data)

\* bounds passed to SetMaxAllowedPacket
WireLimits == {0, MaxPayloadLen}

\* payload lengths of the packets the peer sends to ReadPacket
WirePacketLens == {0, 1, MaxPayloadLen, MaxPayloadLen + 1}

\* c.SetMaxAllowedPacket(m), before anything is read
WireSetMax(m) ==
    /\ wlast = NoCall
    /\ wc' = SetMaxAllowedPacket(wc, m)
    /\ wlast' = [op |-> "max", limit |-> Uint64(m)]
    /\ wcount' = 0
    /\ UNCHANGED notWire

\* the peer sends one packet of len bytes, in as many wire packets as it
\* takes, numbered from the counter of c; c.ReadPacket(&b)
WireReadPacket(len) ==
    /\ wlast.op # "readEnded"
    /\ wc.seqreset = SeqResetNone
    /\ \E data \in {Payload(3, OtherByte, len)} :
       \E r \in {ReadPacket(wc, PeerFrames(data, wc.sequence))} :
          /\ wc' = r.c
          /\ wlast' = [op |-> "readPacket", len |-> len,
                       limit |-> wc.maxAllowedPacket, st |-> r.st,
                       returned |-> r.data, sent |-> data, unread |-> r.rx]
    /\ wcount' = 0
    /\ UNCHANGED notWire

\* payload lengths announced by the last packet of a stream, and how many
\* bytes of the packet (header included) arrive before the stream ends
WireEndedLens == {2, MaxPayloadLen}
WireEndedCuts(len) == {2, 4, 5, 4 + len}

\* the peer sends the first have bytes of one wire packet of len bytes,
\* numbered as c expects, and closes; c.ReadPartialPacket(&b) or
\* c.ReadPacket(&b)
WireReadEnded(len, have, call) ==
    /\ wlast.op # "readEnded"
    /\ \E seq \in {IF SeqResetOnRead \in wc.seqreset THEN 0 ELSE wc.sequence} :
       \E wire \in {Take(Cat(PacketHeader(len, seq), Payload(4, OtherByte, len)),
                          have)} :
       \E r \in {IF call = "partial" THEN ReadPartialPacketAtEnd(wc, wire)
                  ELSE ReadPacketAtEnd(wc, wire, <<>>)} :
          /\ wc' = r.c
          /\ wlast' = [op |-> "readEnded", call |-> call, len |-> len,
                       have |-> have, st |-> r.st, n |-> r.n, data |-> r.data]
    /\ wcount' = 0
    /\ UNCHANGED notWire

WireNext ==
    \/ \E len \in WireLens : WireWrite(len)
    \/ \E opt \in ResetOptions : WireReset(opt)
    \/ \E seq \in {wc.sequence, (wc.sequence + 1) % 256, 0}, len \in {0, 1} :
           WireRead(seq, len)
    \/ \E m \in WireLimits : WireSetMax(m)
    \/ \E len \in WirePacketLens : WireReadPacket(len)
    \/ \E len \in WireEndedLens : \E have \in WireEndedCuts(len) :
           \E call \in {"partial", "packet"} : WireReadEnded(len, have, call)

SpecWire == WireInit /\ [][WireNext]_vars


----------------------------------------------------------------------------
(* SpecFrame: two Conns joined by in-order pipes, as makeConnPair builds   *)
(* them.  The ends exchange batches of payloads: the client writes a batch *)
(* and flushes, the server reads it, the server writes a batch back, the   *)
(* client reads it; between two exchanges the ends may call                *)
(* SetResetOption.                                                         *)

\* payload lengths written in SpecFrame; with its 4-byte packet header a
\* payload of minCompressLen - 5 bytes makes 127 pending bytes
FrameLens ==
    {0, minCompressLen - 5, minCompressLen - 4, 200, maxBufferLen,
     MaxPayloadLen - 1, MaxPayloadLen}
\* payloads per batch
MaxBatch == 2
\* request/response exchanges
MaxExchanges == 2

SpecWireIdle ==
    /\ wc = NewConn
    /\ wlast = NoCall
    /\ wcount = 0

FrameInit ==
    /\ SpecWireIdle
    /\ RouteIdle
    /\ SessIdle
    /\ GwIdle
    /\ CodecIdle
    /\ RelayIdle
    /\ \E compress \in BOOLEAN : FrameStart(compress)

\* bytes a Flush of c would still send
Unflushed(c) == IF c.compressor.on THEN c.compressor.writeBuffer ELSE c.wbuf

\* the bytes the pending-write buffer of the compressor holds at most while
\* WritePacket(len) runs on c
PendingAfter(c, len) ==
    IF c.compressor.on THEN BLen(c.compressor.writeBuffer) + 4 + len ELSE 0

\* goSendPayloads: conn.WritePacket(p)
FrameWrite(len) ==
    /\ fstate.err = "none" /\ ~fstate.closed
    /\ Len(fsent) < MaxBatch
    /\ LET Done(data, r) ==
               /\ fconn' = [fconn EXCEPT ![fstate.sender] = r.c]
               /\ fsent' = Append(fsent, data)
               /\ fstate' = [fstate EXCEPT
                      !.err = IF r.err THEN "write" ELSE "none",
                      !.short = fstate.short /\ len < MaxPayloadLen,
                      !.fits = fstate.fits /\ len < MaxPayloadLen
                               /\ PendingAfter(fconn[fstate.sender], len) <= maxBufferLen]
           Send(data) == Done(data, WritePacket(fconn[fstate.sender], data))
       IN Send(Payload(Len(fsent) + 1, OtherByte, len))
    /\ UNCHANGED <<notFrame, frcvd>>

\* goSendPayloads: conn.Flush(), which ends the batch (last); the gateway's
\* copyPacket also flushes after a packet inside a batch
FrameFlush(last) ==
    /\ fstate.err = "none" /\ ~fstate.closed
    /\ Len(fsent) > 0
    /\ last \/ Unflushed(fconn[fstate.sender]) # <<>>
    /\ fconn' = [fconn EXCEPT ![fstate.sender] = Flush(fconn[fstate.sender])]
    /\ fstate' = [fstate EXCEPT !.closed = last]
    /\ UNCHANGED <<notFrame, fsent, frcvd>>

\* recvPayloads: conn.ReadPacket(&b), once the bytes it waits for are there
FrameRead ==
    /\ fstate.err = "none"
    /\ Len(frcvd) < Len(fsent)
    /\ LET rcv == Peer(fstate.sender)
           Done(r) ==
               /\ r.st # "block"
               /\ fconn' = [fconn EXCEPT ![rcv] = r.c, ![fstate.sender].tx = r.rx]
               /\ frcvd' = IF r.st = "ok" THEN Append(frcvd, r.data) ELSE frcvd
               /\ fstate' = [fstate EXCEPT
                                 !.err = IF r.st = "ok" THEN "none" ELSE "read"]
       IN Done(ReadPacket(fconn[rcv], fconn[fstate.sender].tx))
    /\ UNCHANGED <<notFrame, fsent>>

\* the batch is written, flushed and read
BatchDone ==
    /\ fstate.err = "none" /\ fstate.closed
    /\ Len(frcvd) = Len(fsent)

\* the server answers the client's batch
FrameRespond ==
    /\ BatchDone /\ fstate.sender = "client"
    /\ fstate' = [fstate EXCEPT !.sender = "server", !.closed = FALSE]
    /\ fsent' = <<>> /\ frcvd' = <<>>
    /\ UNCHANGED <<notFrame, fconn>>

\* the calls between two exchanges: "none", "paired" (testConnRequestResponse:
\* client.SetResetOption(SeqResetOnWrite); server.SetResetOption(SeqResetOnRead))
\* or one other SetResetOption call
ResetCalls ==
    {[kind |-> "none"], [kind |-> "paired"]}
        \cup [kind : {"other"}, end : {"client", "server"}, opt : ResetOptions]

FrameEndExchange(calls) ==
    /\ BatchDone /\ fstate.sender = "server"
    /\ fstate.exch + 1 < MaxExchanges
    /\ fconn' = IF calls.kind = "paired"
                THEN [fconn EXCEPT
                         !["client"] = SetResetOption(fconn["client"], {SeqResetOnWrite}),
                         !["server"] = SetResetOption(fconn["server"], {SeqResetOnRead})]
                ELSE IF calls.kind = "other"
                THEN [fconn EXCEPT
                         ![calls.end] = SetResetOption(fconn[calls.end], calls.opt)]
                ELSE fconn
    /\ fstate' = [fstate EXCEPT !.sender = "client", !.closed = FALSE,
                                !.exch = fstate.exch + 1,
                                !.noReset = fstate.noReset /\ calls.kind = "none",
                                !.paired = fstate.paired /\ calls.kind = "paired"]
    /\ fsent' = <<>> /\ frcvd' = <<>>
    /\ UNCHANGED notFrame

FrameNext ==
    \/ \E len \in FrameLens : FrameWrite(len)
    \/ \E last \in BOOLEAN : FrameFlush(last)
    \/ FrameRead
    \/ FrameRespond
    \/ \E calls \in ResetCalls : FrameEndExchange(calls)

SpecFrame == FrameInit /\ [][FrameNext]_vars

----------------------------------------------------------------------------
(* SpecRoute: one getBackendAddr call on a user name and a backend         *)
(* directory.                                                              *)

\* sequences over S of length n at most
RECURSIVE SeqsUpTo(_, _)
SeqsUpTo(S, n) ==
    IF n = 0 THEN {<<>>}
    ELSE LET shorter == SeqsUpTo(S, n - 1)
         IN shorter \cup {Append(q, x) : q \in shorter, x \in S}

\* longest user name drawn from RouteChars
MaxNameLen == 3
\* longest backend directory drawn from RouteEntries
MaxDirLen == 2

RouteChars == {Asc("c"), Asc("C"), Asc("1"), Asc("."), Asc(":")}

RouteEntries ==
    [ClusterID : {Str(<<"c">>), Str(<<"C">>), Str(<<"c", "1">>)},
     Address : {Str(<<"1">>), Str(<<"c", ":", "1">>),
                Str(<<"c", ":">>), Str(<<":", "1", "c">>)}]

Example_c1_alice == Str(<<"c", "1", ".", "a", "l", "i", "c", "e">>)
Example_C1_alice == Str(<<"C", "1", ".", "a", "l", "i", "c", "e">>)
Example_c2 == Str(<<"c", "2">>)
Example_alice == Str(<<"a", "l", "i", "c", "e">>)
Example_addr == Str(<<"1", "0", ".", "0", ".", "0", ".", "1">>)
Example_addr4000 == Example_addr \o Str(<<":", "4", "0", "0", "0">>)
Example_addr5000 == Example_addr \o Str(<<":", "5", "0", "0", "0">>)
Example_c1 == [ClusterID |-> Str(<<"c", "1">>), Address |-> Example_addr]
Example_c1_5000 == [ClusterID |-> Str(<<"c", "1">>), Address |-> Example_addr5000]

RouteInputs ==
    [UserName : SeqsUpTo(RouteChars, MaxNameLen),
     BackendConfigs : SeqsUpTo(RouteEntries, MaxDirLen)]
    \cup [UserName : {Example_c1_alice, Example_C1_alice, Example_c2},
          BackendConfigs : {<<Example_c1>>, <<Example_c1_5000>>,
                            <<Example_c1, Example_c1_5000>>}]

RouteInit ==
    /\ SpecWireIdle
    /\ FrameIdle
    /\ SessIdle
    /\ GwIdle
    /\ CodecIdle
    /\ RelayIdle
    /\ rin \in RouteInputs
    /\ rout = NoRoute

\* handleConn: backendAddr, err := g.getBackendAddr(res)
Route ==
    /\ ~rout.called
    /\ rout' = getBackendAddr(rin.UserName, rin.BackendConfigs)
    /\ UNCHANGED <<notRoute, rin>>

RouteNext == Route

SpecRoute == RouteInit /\ [][RouteNext]_vars

----------------------------------------------------------------------------
(* SpecSession: one run of handleConn between a client and a backend.      *)
(* The session's steps run from one blocking call to the next; the client  *)
(* and the backend are Conns of their own, so that the sequence bytes they *)
(* send are those of the protocol.                                         *)

\* backend packets in one auth exchange
MaxAuthPackets == 3

SessConfs ==
    [BackendConfigs : {<<>>, <<[ClusterID |-> Str(<<"c", "1">>),
                                Address |-> Str(<<"c", ":", "1">>)]>>},
     EnableCompression : BOOLEAN,
     BackendInsecureTransport : BOOLEAN]

\* capability words of the client's first packet: the new format with every
\* choice of six flags, two words with further bits, three of the old format
ClientCaps ==
    {{ClientProtocol41} \cup f :
        f \in SUBSET {ClientSecureConnection, ClientPluginAuth, ClientConnectWithDB,
                      ClientConnectAttrs, ClientCompress, ClientSSL}}
    \cup {{0, ClientProtocol41, ClientSecureConnection, ClientPluginAuth,
           ClientPluginAuthLenencClientData, ClientCompress},
          {ClientProtocol41, ClientPluginAuthLenencClientData, ClientConnectWithDB, 31},
          {}, {ClientConnectWithDB, ClientCompress}, {0, ClientSSL}}

ClientResponses ==
    [Capability : ClientCaps,
     MaxPacketSize : {16777216},
     CharacterSet : {33},
     UserName : {Str(<<"c", "1", ".", "a">>), Str(<<"c">>)},
     DBName : {Str(<<"d">>)},
     Auth : {<<>>, <<7, 0, 9>>},
     AuthPlugin : {Str(<<"a">>)},
     Attrs : {{}, {<<Str(<<"a">>), Str(<<"c">>)>>, <<Str(<<"c">>), <<>> >>}}]

\* the responses a client sends on the TLS stream
ClientResponsesTLS ==
    {hr \in ClientResponses :
        /\ {ClientProtocol41, ClientSSL} \subseteq hr.Capability
        /\ hr.Capability \subseteq {ClientProtocol41, ClientSSL, ClientCompress,
                                    ClientSecureConnection, ClientConnectAttrs}
        /\ hr.Auth # <<>>}

\* first byte and length of the packets a backend sends in the auth exchange
AuthSends ==
    {<<HeaderOK, 7>>, <<HeaderErr, 9>>, <<HeaderEOF, 200>>,
     <<OtherByte, 0>>, <<OtherByte, MaxPayloadLen>>}

\* lengths of the client's answers in the auth exchange
AuthReplies == {0, 32}

\* the client's encoding of hr; an SSLRequest is its first 32 bytes
ClientEncode(hr, truncated) ==
    LET Cut(bytes) == IF truncated THEN SubSeq(bytes, 1, 32) ELSE bytes
    IN Cut(HandshakeResponseWrite(hr, CHOOSE o \in MapOrders(hr.Attrs) : TRUE))

\* the client or the backend sends a packet: its connection and its
\* sequence number afterwards
PeerSend(c, data) ==
    [c EXCEPT !.tx = Cat(@, PeerFrames(data, c.sequence)),
              !.sequence = (@ + (BLen(data) \div MaxPayloadLen) + 1) % 256]

\* what the history keeps of a response sent to the backend: the sequence
\* number of its first wire packet, whether the wire bytes are one packet
\* that carries the bytes of the whole response, whether it went out on the
\* TLS stream, its SSL bit, and whether it is the response `first`
CopySent(res, bytes, wire, tls, first) ==
    [seq |-> HeadersOf(wire)[1].seq,
     whole |-> \E r \in {ReadPacket([NewConn EXCEPT !.sequence = HeadersOf(wire)[1].seq],
                                     wire)} :
                  /\ r.st = "ok" /\ r.rx = <<>>
                  /\ Bytes(r.data) = bytes
                  /\ bytes \in {HandshakeResponseWrite(res, order) :
                                    order \in MapOrders(res.Attrs)},
     tls |-> tls,
     ssl |-> ClientSSL \in res.Capability,
     same |-> res = first]

SessInit ==
    /\ SpecWireIdle
    /\ FrameIdle
    /\ RouteIdle
    /\ \E c \in SessConfs : SessStart(c)
    /\ GwIdle
    /\ CodecIdle
    /\ RelayIdle

\* handleConn up to recvHandshakeResponse: sendInitialHandshake
SessGreet ==
    /\ sess.pc = "greet"
    /\ \E w \in {SendPacket(sconn["conn"], Handshake(1))} :
          /\ sconn' = [sconn EXCEPT !["conn"] = w.c]
          /\ sess' = IF w.err THEN Exit(sess, "sendInitialHandshake")
                     ELSE [sess EXCEPT !.pc = "recvResponse"]
    /\ UNCHANGED <<notSess, conf, shist>>

\* the client reads the greeting and answers with a HandshakeResponse or
\* with an SSLRequest
ClientHello ==
    /\ shist.first = "none"
    /\ \E g \in {ReadPacket(sconn["client"], sconn["conn"].tx)} :
          /\ g.st = "ok"
          /\ \E hr \in ClientResponses, truncated \in BOOLEAN :
                /\ truncated => {ClientProtocol41, ClientSSL} \subseteq hr.Capability
                /\ sconn' = [sconn EXCEPT
                       !["conn"].tx = g.rx,
                       !["client"] = PeerSend(g.c, Raw(ClientEncode(hr, truncated)))]
                /\ shist' = [shist EXCEPT
                       !.first = IF truncated THEN "truncated" ELSE "full",
                       !.compress = ClientCompress \in hr.Capability]
    /\ UNCHANGED <<notSess, conf, sess>>

\* handleConn: recvHandshakeResponse (the first one, or the one on the TLS
\* stream), then getBackendAddr, up to the TLS handshake or the dial
SessRecvResponse ==
    /\ sess.pc \in {"recvResponse", "recvResponseTLS"}
    /\ \E r \in {ReadPacket(sconn["conn"], sconn["client"].tx)} :
          /\ r.st # "block"
          /\ sconn' = [sconn EXCEPT !["conn"] = r.c, !["client"].tx = r.rx]
          /\ IF r.st = "err"
             THEN sess' = Exit(sess, "recvHandshakeResponse") /\ UNCHANGED shist
             ELSE \E d \in {HandshakeResponseRead(Bytes(r.data))} :
                  /\ shist' = [shist EXCEPT
                         !.decoded = IF d.err THEN NoResponse ELSE d.s]
                  /\ IF d.err
                     THEN sess' = Exit(sess, "recvHandshakeResponse")
                     ELSE IF sess.pc = "recvResponse" /\ ClientSSL \in d.s.Capability
                     THEN sess' = [sess EXCEPT !.pc = "tlsServer", !.res = d.s]
                     ELSE \E g \in {getBackendAddr(d.s.UserName, conf.BackendConfigs)} :
                          sess' = [sess EXCEPT
                              !.pc = "dial",
                              !.res = [d.s EXCEPT !.UserName = g.UserName],
                              !.backendAddr = g.addr,
                              !.enableCompress = ClientCompress \in d.s.Capability]
    /\ UNCHANGED <<notSess, conf>>

\* handleConn: tls.Server(rawConn).Handshake() with the client, then
\* conn.SetRawConn(tlsConn); the client switches to the TLS stream as well
SessTLSServer(ok) ==
    /\ sess.pc = "tlsServer"
    /\ sess' = IF ok THEN [sess EXCEPT !.pc = "recvResponseTLS"]
               ELSE Exit(sess, "tlsServer")
    /\ sconn' = IF ok THEN [sconn EXCEPT !["conn"] = SetRawConn(@),
                                         !["client"] = SetRawConn(@)]
                ELSE sconn
    /\ UNCHANGED <<notSess, conf, shist>>

\* the client sends its HandshakeResponse on the TLS stream
ClientHelloTLS ==
    /\ sess.pc = "recvResponseTLS"
    /\ ~shist.second
    /\ \E hr \in ClientResponsesTLS :
          /\ sconn' = [sconn EXCEPT
                 !["client"] = PeerSend(@, Raw(ClientEncode(hr, FALSE)))]
          /\ shist' = [shist EXCEPT !.second = TRUE,
                                    !.compress = ClientCompress \in hr.Capability]
    /\ UNCHANGED <<notSess, conf, sess>>

\* handleConn: connectBackend
SessDial(ok) ==
    /\ sess.pc = "dial"
    /\ IF ok
       THEN /\ sess' = [sess EXCEPT !.pc = "recvGreeting", !.dialed = TRUE,
                                    !.backendAddr = <<>>,
                                    !.defers = Append(@, "backendConn")]
            /\ sconn' = [sconn EXCEPT !["backendConn"] = NewConn]
       ELSE /\ sess' = Exit(sess, "connectBackend")
            /\ sconn' = [sconn EXCEPT
                   !["conn"] = sendErr(@, ErrText("connectBackend"))]
    /\ shist' = [shist EXCEPT !.dials = @ + 1]
    /\ UNCHANGED <<notSess, conf>>

\* the backend greets with an InitialHandshake of the given protocol version
BackendGreet(version) ==
    /\ sess.pc = "recvGreeting"
    /\ ~shist.greeted
    /\ sconn' = [sconn EXCEPT
           !["backend"] = PeerSend(@, Payload(0, version, 1 + BLen(Handshake(0))))]
    /\ shist' = [shist EXCEPT !.greeted = TRUE]
    /\ UNCHANGED <<notSess, conf, sess>>

\* handleConn: recvInitialHandshake, the changes to res, and
\* backendConn.SendPacket(res); order is the order range s.Attrs yields
SessRecvGreeting(order) ==
    /\ sess.pc = "recvGreeting"
    /\ \E r \in {ReadPacket(sconn["backendConn"], sconn["backend"].tx)} :
          /\ r.st # "block"
          /\ IF r.st = "err" \/ HandshakeReadErr(r.data)
             THEN /\ sconn' = [sconn EXCEPT
                         !["backendConn"] = r.c,
                         !["backend"].tx = r.rx,
                         !["conn"] = sendErr(@, ErrText("recvInitialHandshake"))]
                  /\ sess' = Exit(sess, "recvInitialHandshake")
                  /\ UNCHANGED shist
             ELSE \E res \in {MutateResponse(sess.res, conf)} :
                  \E bytes \in {HandshakeResponseWrite(res, order)} :
                  \E w \in {SendPacket(r.c, Raw(bytes))} :
                      /\ sconn' = [sconn EXCEPT
                             !["backendConn"] = w.c,
                             !["backend"].tx = r.rx,
                             !["conn"] = IF w.err
                                         THEN sendErr(@, ErrText("SendPacket"))
                                         ELSE @]
                      /\ sess' = IF w.err THEN Exit(sess, "SendPacket")
                                 ELSE IF NeedsBackendTLS(res)
                                 THEN [sess EXCEPT !.pc = "tlsClient", !.res = res]
                                 ELSE [sess EXCEPT !.pc = "authB", !.res = NoResponse]
                      /\ shist' = [shist EXCEPT
                             !.sent = Append(@, [res |-> res, bytes |-> bytes]),
                             !.copies = Append(@,
                                 CopySent(res, bytes, Drop(w.c.tx, BLen(r.c.tx)),
                                          FALSE, res))]
    /\ UNCHANGED <<notSess, conf>>

\* handleConn: tls.Client(backendConn.RawConn()).Handshake() once the backend
\* has read the first copy, backendConn.SetRawConn(tlsConn), and
\* backendConn.SendPacket(res) again
SessTLSClient(ok, order) ==
    /\ sess.pc = "tlsClient"
    /\ sconn["backendConn"].tx = <<>>
    /\ IF ok
       THEN \E bytes \in {HandshakeResponseWrite(sess.res, order)} :
            \E w \in {SendPacket(SetRawConn(sconn["backendConn"]), Raw(bytes))} :
                /\ sconn' = [sconn EXCEPT
                       !["backendConn"] = w.c,
                       !["backend"] = SetRawConn(@),
                       !["conn"] = IF w.err
                                   THEN sendErr(@, ErrText("SendPacket"))
                                   ELSE @]
                /\ sess' = IF w.err THEN Exit(sess, "SendPacket")
                           ELSE [sess EXCEPT !.pc = "authB", !.res = NoResponse]
                /\ shist' = [shist EXCEPT
                       !.sent = Append(@, [res |-> sess.res, bytes |-> bytes]),
                       !.copies = Append(@,
                           CopySent(sess.res, bytes, w.c.tx, TRUE,
                                    shist.sent[1].res)),
                       !.beTLS = "ok"]
       ELSE /\ sconn' = [sconn EXCEPT !["conn"] = sendErr(@, ErrText("tlsClient"))]
            /\ sess' = Exit(sess, "tlsClient")
            /\ shist' = [shist EXCEPT !.beTLS = "failed"]
    /\ UNCHANGED <<notSess, conf>>

\* the backend reads one packet; once it has read the last copy of the
\* HandshakeResponse nothing of it is in flight any more
BackendRecv ==
    /\ sess.dialed
    /\ \E r \in {ReadPacket(sconn["backend"], sconn["backendConn"].tx)} :
          /\ r.st # "block"
          /\ sconn' = [sconn EXCEPT
                 !["backend"] = r.c,
                 !["backendConn"].tx = IF r.st = "ok" THEN r.rx ELSE <<>>]
    /\ shist' = IF sess.pc = "tlsClient" THEN shist
                ELSE [shist EXCEPT !.sent = <<>>, !.decoded = NoResponse]
    /\ UNCHANGED <<notSess, conf, sess>>

\* the backend sends a packet of the auth exchange
BackendSend(p) ==
    /\ sess.pc \in {"authB", "authC"}
    /\ ~shist.hangup
    /\ shist.sent = <<>> /\ sconn["backendConn"].tx = <<>>
    /\ Len(shist.beSent) < MaxAuthPackets
    /\ \E data \in {Payload(Len(shist.beSent) + 1, p[1], p[2])} :
          /\ sconn' = [sconn EXCEPT !["backend"] = PeerSend(@, data)]
          /\ shist' = [shist EXCEPT !.beSent = Append(@, data),
                                    !.short = @ /\ p[2] < MaxPayloadLen]
    /\ UNCHANGED <<notSess, conf, sess>>

\* the backend closes its connection while the session waits for its next
\* auth packet, everything it sent before having been read
BackendHangup ==
    /\ sess.pc = "authB"
    /\ ~shist.hangup
    /\ shist.sent = <<>> /\ sconn["backendConn"].tx = <<>>
    /\ sconn["backend"].tx = <<>>
    /\ shist' = [shist EXCEPT !.hangup = TRUE]
    /\ UNCHANGED <<notSess, conf, sess, sconn>>

\* exchangeAuth: copyPacket(clientConn, backendConn) and the test that ends
\* the loop; after the loop handleConn enters the relay
SessAuthB2C ==
    /\ sess.pc = "authB"
    /\ \E r \in {AtEOF(ReadPacket(sconn["backendConn"], sconn["backend"].tx),
                       shist.hangup)} :
       \E cp \in {copyPacket(sconn["conn"], r)} :
       \E conns \in {[sconn EXCEPT !["conn"] = cp.dst,
                                   !["backendConn"] = cp.src,
                                   !["backend"].tx = cp.rx]} :
          /\ cp.st # "block"
          /\ sess' = IF cp.st = "err" THEN Exit(sess, "exchangeAuth")
                     ELSE IF IsTerminal(cp.data)
                     THEN [sess EXCEPT !.pc = "relay",
                                       !.relay = RelayOf(sess.enableCompress)]
                     ELSE [sess EXCEPT !.pc = "authC"]
          /\ sconn' = IF cp.st = "ok" /\ IsTerminal(cp.data)
                      THEN StartRelay(conns, sess.enableCompress)
                      ELSE conns
          /\ shist' = IF r.st = "err" THEN shist
                      ELSE [shist EXCEPT !.log = Append(@,
                               [dir |-> "b2c", st |-> cp.st, data |-> cp.data,
                                seq |-> cp.seq, wire |-> cp.wire])]
    /\ UNCHANGED <<notSess, conf>>

\* exchangeAuth: copyPacket(backendConn, clientConn)
SessAuthC2B ==
    /\ sess.pc = "authC"
    /\ \E r \in {ReadPacket(sconn["conn"], sconn["client"].tx)} :
       \E cp \in {copyPacket(sconn["backendConn"], r)} :
          /\ cp.st # "block"
          /\ sess' = IF cp.st = "err" THEN Exit(sess, "exchangeAuth")
                     ELSE [sess EXCEPT !.pc = "authB"]
          /\ sconn' = [sconn EXCEPT !["backendConn"] = cp.dst,
                                    !["conn"] = cp.src,
                                    !["client"].tx = cp.rx]
          /\ shist' = IF r.st = "err" THEN shist
                      ELSE [shist EXCEPT !.log = Append(@,
                               [dir |-> "c2b", st |-> cp.st, data |-> cp.data,
                                seq |-> cp.seq, wire |-> cp.wire])]
    /\ UNCHANGED <<notSess, conf>>

\* handleConn: RelayPackets / RelayRawBytes returns, either with the error of
\* a copier ("errCh") or because g.quit was closed ("quit"), and handleConn
\* returns
SessRelayReturn(cause) ==
    /\ sess.pc = "relay"
    /\ sess' = Exit(sess, cause)
    /\ UNCHANGED <<notSess, conf, sconn, shist>>

\* the client reads one packet of the auth exchange (or the Err packet)
ClientRecv ==
    /\ sess.pc \in {"authB", "authC", "relay", "done"}
    /\ ~shist.cliErr
    /\ \E r \in {ReadPacket(sconn["client"], sconn["conn"].tx)} :
          /\ r.st # "block"
          /\ sconn' = [sconn EXCEPT !["client"] = r.c, !["conn"].tx = r.rx]
          /\ shist' = IF r.st = "ok"
                      THEN [shist EXCEPT !.cliRcvd = Append(@, r.data)]
                      ELSE [shist EXCEPT !.cliErr = TRUE]
    /\ UNCHANGED <<notSess, conf, sess>>

\* the client answers a packet it has read
ClientReply(len) ==
    /\ sess.pc \in {"authB", "authC", "relay"}
    /\ ~shist.cliErr
    /\ Len(shist.cliSent) < Len(shist.cliRcvd)
    /\ \E data \in {Payload(0 - Len(shist.cliRcvd), OtherByte, len)} :
          /\ sconn' = [sconn EXCEPT !["client"] = PeerSend(@, data)]
          /\ shist' = [shist EXCEPT !.cliSent = Append(@, data)]
    /\ UNCHANGED <<notSess, conf, sess>>

SessNext ==
    \/ SessGreet
    \/ ClientHello
    \/ SessRecvResponse
    \/ \E ok \in BOOLEAN : SessTLSServer(ok)
    \/ ClientHelloTLS
    \/ \E ok \in BOOLEAN : SessDial(ok)
    \/ \E version \in {DefaultHandshakeVersion, OtherByte} : BackendGreet(version)
    \/ \E order \in MapOrders(sess.res.Attrs) : SessRecvGreeting(order)
    \/ \E ok \in BOOLEAN, order \in MapOrders(sess.res.Attrs) : SessTLSClient(ok, order)
    \/ BackendRecv
    \/ \E p \in AuthSends : BackendSend(p)
    \/ BackendHangup
    \/ SessAuthB2C
    \/ SessAuthC2B
    \/ \E cause \in {"errCh", "quit"} : SessRelayReturn(cause)
    \/ ClientRecv
    \/ \E len \in AuthReplies : ClientReply(len)

SpecSession == SessInit /\ [][SessNext]_vars

----------------------------------------------------------------------------
(* SpecGateway: Stop, serve and the handleConn goroutines.  A session is   *)
(* followed by its phase only: the handshake and auth steps up to the      *)
(* relay need traffic from the client and the backend, the relay call      *)
(* waits in its select, and handleConn's deferred calls run when it        *)
(* returns.                                                                *)

GwInit ==
    /\ SpecWireIdle
    /\ FrameIdle
    /\ RouteIdle
    /\ SessIdle
    /\ GwIdle
    /\ CodecIdle
    /\ RelayIdle

\* sessions started so far
Started == {s \in 1..MaxSessions : gw.conns[s].pc # "none"}

\* a client connects; the connection waits in the listener
Connect ==
    /\ gw.l = "open"
    /\ gw.backlog + Cardinality(Started) + (IF gw.serve = "spawn" THEN 1 ELSE 0)
           < MaxSessions
    /\ gw' = [gw EXCEPT !.backlog = @ + 1]
    /\ ghist' = [ghist EXCEPT !.late = @ \/ gw.stop # "idle"]
    /\ UNCHANGED notGw

\* StartServe: g.wg.Add(1); go g.serve()
StartServe ==
    /\ gw.serve = "none"
    /\ gw' = [gw EXCEPT !.wg = @ + 1, !.serve = "accept"]
    /\ UNCHANGED <<notGw, ghist>>

\* serve: g.l.Accept() returns a connection, or an error once the listener
\* is closed, and then serve returns through its deferred g.wg.Done()
ServeAccept ==
    /\ gw.serve = "accept"
    /\ \/ /\ gw.l = "closed"
          /\ gw' = [gw EXCEPT !.serve = "returned", !.wg = @ - 1]
       \/ /\ gw.l = "open"
          /\ gw.backlog > 0
          /\ gw' = [gw EXCEPT !.serve = "spawn", !.backlog = @ - 1]
    /\ UNCHANGED <<notGw, ghist>>

\* a mutant of serve that starts handleConn without g.wg.Add(1)
ServeSpawn_NoAdd ==
    /\ gw.serve = "spawn"
    /\ \E s \in 1..MaxSessions :
          /\ s \notin Started
          /\ \A t \in 1..(s - 1) : t \in Started
          /\ gw' = [gw EXCEPT !.serve = "accept", !.conns[s].pc = "start"]
    /\ UNCHANGED <<notGw, ghist>>

\* serve: g.wg.Add(1); go g.handleConn(conn)
ServeSpawn ==
    /\ gw.serve = "spawn"
    /\ \E s \in 1..MaxSessions :
          /\ s \notin Started
          /\ \A t \in 1..(s - 1) : t \in Started
          /\ gw' = [gw EXCEPT !.serve = "accept", !.wg = @ + 1,
                              !.conns[s].pc = "start"]
    /\ UNCHANGED <<notGw, ghist>>

\* a mutant of the atomic add that loses the update
AddUint32_Lost(v, delta) == v

\* atomic.AddUint32(&v, delta): the new value, which is stored and returned
\* in one step.  The counter starts at 0 and takes one step per session, so
\* with MaxSessions sessions it stays far from the wrap of uint32 at 2^32.
AddUint32(v, delta) == v + delta

\* handleConn: connID := atomic.AddUint32(&g.connectionID, 1)
SessConnID(s) ==
    /\ gw.conns[s].pc = "start"
    /\ \E connID \in {AddUint32(gw.connectionID, 1)} :
          /\ gw' = [gw EXCEPT !.connectionID = connID,
                              !.conns[s].pc = "handshake"]
          /\ ghist' = [ghist EXCEPT !.ids = Append(@, connID)]
    /\ UNCHANGED notGw

\* handleConn from its start to the relay call, when the client and the
\* backend send what it waits for: it returns on an error, or starts
\* RelayPackets (enableCompress) or RelayRawBytes with their two copying
\* goroutines
SessHandshake(s, ok, enableCompress) ==
    /\ gw.conns[s].pc = "handshake"
    /\ gw' = IF ok
             THEN [gw EXCEPT !.conns[s] =
                      [pc |-> "relay",
                       mode |-> IF enableCompress THEN "packets" ELSE "raw",
                       copiers |-> 2, errCh |-> 0]]
             ELSE [gw EXCEPT !.conns[s].pc = "done", !.wg = @ - 1]
    /\ UNCHANGED <<notGw, ghist>>

\* RelayRawBytes / RelayPackets: errCh := make(chan error, 2)
errChCap == 2

\* a mutant with an unbuffered errCh, no receiver waiting
ChanHasRoom_Unbuffered(n) == n < 0

\* errCh <- err does not block: the channel holds fewer values than its
\* capacity
ChanHasRoom(n) == n < errChCap

\* a copying goroutine of the relay gets an error because the peer closed
\* its connection, sends it to errCh and exits
CopierExit(s) ==
    /\ gw.conns[s].pc \in {"relay", "returning"}
    /\ gw.conns[s].copiers > 0
    /\ ChanHasRoom(gw.conns[s].errCh)
    /\ gw' = [gw EXCEPT !.conns[s].copiers = @ - 1, !.conns[s].errCh = @ + 1]
    /\ UNCHANGED <<notGw, ghist>>

\* handleConn has returned and closed both connections: the call a copying
\* goroutine is in fails, the goroutine sends the error to errCh and exits
CopierClosed(s) ==
    /\ gw.conns[s].pc = "done"
    /\ gw.conns[s].copiers > 0
    /\ ChanHasRoom(gw.conns[s].errCh)
    /\ gw' = [gw EXCEPT !.conns[s].copiers = @ - 1, !.conns[s].errCh = @ + 1]
    /\ UNCHANGED <<notGw, ghist>>

RelaySelect_ErrOnly(errCh, quit) == errCh > 0

\* a mutant of the select without the errCh case
RelaySelect_QuitOnly(errCh, quit) == quit

\* RelayRawBytes / RelayPackets: a case of the select is ready
RelaySelect(errCh, quit) == errCh > 0 \/ quit

\* RelayRawBytes / RelayPackets return from the select, through the errCh
\* case or through the quit case
RelayReturn(s, fromErrCh) ==
    /\ gw.conns[s].pc = "relay"
    /\ RelaySelect(gw.conns[s].errCh, gw.quit)
    /\ IF fromErrCh
       THEN /\ gw.conns[s].errCh > 0
            /\ gw' = [gw EXCEPT !.conns[s].pc = "returning",
                                !.conns[s].errCh = @ - 1]
       ELSE /\ gw.quit
            /\ gw' = [gw EXCEPT !.conns[s].pc = "returning"]
    /\ UNCHANGED <<notGw, ghist>>

\* handleConn returns after the relay: its deferred backendConn.Close(),
\* conn.Close() and g.wg.Done(); the copying goroutines that are left are
\* not counted in g.wg
SessReturn(s) ==
    /\ gw.conns[s].pc = "returning"
    /\ gw' = [gw EXCEPT !.conns[s].pc = "done", !.conns[s].mode = "none",
                        !.wg = @ - 1]
    /\ UNCHANGED <<notGw, ghist>>

\* a mutant of Stop whose signal ends the sessions that have not reached the
\* relay
StopCloseQuit_EndsHandshakes ==
    /\ gw.stop = "idle"
    /\ \E early \in {{s \in 1..MaxSessions : gw.conns[s].pc = "handshake"}} :
          gw' = [gw EXCEPT
                    !.stop = "quit", !.quit = TRUE,
                    !.wg = @ - Cardinality(early),
                    !.conns = [s \in 1..MaxSessions |->
                                  IF s \in early
                                  THEN [gw.conns[s] EXCEPT !.pc = "done"]
                                  ELSE gw.conns[s]]]
    /\ ghist' = [ghist EXCEPT
           !.stopClean = /\ \A s \in 1..MaxSessions :
                                gw.conns[s].pc \notin {"start", "handshake"}
                         /\ gw.serve # "spawn"
                         /\ gw.backlog = 0,
           !.relaying = {gw.conns[s].mode :
                            s \in {t \in 1..MaxSessions : gw.conns[t].pc = "relay"}}]
    /\ UNCHANGED notGw

\* Stop: close(g.quit)
StopCloseQuit ==
    /\ gw.stop = "idle"
    /\ gw' = [gw EXCEPT !.stop = "quit", !.quit = TRUE]
    /\ ghist' = [ghist EXCEPT
           !.stopClean = /\ \A s \in 1..MaxSessions :
                                gw.conns[s].pc \notin {"start", "handshake"}
                         /\ gw.serve # "spawn"
                         /\ gw.backlog = 0,
           !.relaying = {gw.conns[s].mode :
                            s \in {t \in 1..MaxSessions : gw.conns[t].pc = "relay"}}]
    /\ UNCHANGED notGw

\* Stop: g.l.Close()
StopCloseListener ==
    /\ gw.stop = "quit"
    /\ gw' = [gw EXCEPT !.stop = "close", !.l = "closed", !.backlog = 0]
    /\ UNCHANGED <<notGw, ghist>>

\* Stop: g.wg.Wait() returns, and Stop after it
StopWait ==
    /\ gw.stop = "close"
    /\ gw.wg = 0
    /\ gw' = [gw EXCEPT !.stop = "returned"]
    /\ UNCHANGED <<notGw, ghist>>

GwNext ==
    \/ Connect
    \/ StartServe
    \/ ServeAccept
    \/ ServeSpawn
    \/ \E s \in 1..MaxSessions : SessConnID(s)
    \/ \E s \in 1..MaxSessions, ok, enableCompress \in BOOLEAN :
          SessHandshake(s, ok, enableCompress)
    \/ \E s \in 1..MaxSessions : CopierExit(s)
    \/ \E s \in 1..MaxSessions : CopierClosed(s)
    \/ \E s \in 1..MaxSessions, fromErrCh \in BOOLEAN : RelayReturn(s, fromErrCh)
    \/ \E s \in 1..MaxSessions : SessReturn(s)
    \/ StopCloseQuit
    \/ StopCloseListener
    \/ StopWait

SpecGateway == GwInit /\ [][GwNext]_vars

\* the goroutines are scheduled fairly; the client and the backend need
\* not send anything
GwFairness ==
    /\ WF_vars(ServeAccept)
    /\ WF_vars(ServeSpawn)
    /\ \A s \in 1..MaxSessions :
          /\ WF_vars(SessConnID(s))
          /\ WF_vars(\E fromErrCh \in BOOLEAN : RelayReturn(s, fromErrCh))
          /\ WF_vars(SessReturn(s))
          /\ WF_vars(CopierClosed(s))
    /\ WF_vars(StopCloseListener)
    /\ WF_vars(StopWait)

SpecGatewayFair == SpecGateway /\ GwFairness

----------------------------------------------------------------------------
(* SpecCodec: one mysql.Buffer; its user writes values, reads them back    *)
(* from the front, and may be handed a Buffer that ends early.             *)

\* values written to the Buffer in a row
MaxCodecVals == 2

\* the uint64 values written: the ends of the four forms, and the largest
\* value TLC's integers hold
LenencInts ==
    {0, 250, 251, 65535, 65536, 16777215, 16777216, 2147483647}

CodecInit ==
    /\ SpecWireIdle
    /\ FrameIdle
    /\ RouteIdle
    /\ SessIdle
    /\ GwIdle
    /\ CodecIdle
    /\ RelayIdle

\* the Handshake packets written: the greeting of sendInitialHandshake and of
\* TestProtocol (protocol version 10, the default capabilities, 20 bytes of
\* auth-plugin data) with several values in every field
CodecHandshakes ==
    [ProtocolVersion : {DefaultHandshakeVersion},
     ServerVersion : {Str(<<"5", ".", "1">>), <<>>},
     ConnectionID : {1, 65536, 2147483647},
     AuthPluginData : {Zeros(20), [i \in 1..20 |-> i], [i \in 1..20 |-> 256 - i]},
     Capability : {DefaultCapability},
     CharacterSet : {33, 255},
     StatusFlags : {2, 65535},
     AuthPluginName : {Str(<<"a", "c">>), <<>>}]

\* s encodes every field it holds: a field the capability word leaves out
\* of the format is zero, a NUL-terminated auth response has no NUL, a
\* one-byte length fits the auth response, and the old format has three
\* bytes for the packet size
Carried(s) ==
    /\ ClientConnectWithDB \notin s.Capability => s.DBName = <<>>
    /\ IF ClientProtocol41 \in s.Capability
       THEN /\ ClientPluginAuth \notin s.Capability => s.AuthPlugin = <<>>
            /\ ClientConnectAttrs \notin s.Capability => s.Attrs = {}
            /\ ClientPluginAuthLenencClientData \in s.Capability
                   \/ (IF ClientSecureConnection \in s.Capability
                       THEN Len(s.Auth) < 256
                       ELSE \A i \in 1..Len(s.Auth) : s.Auth[i] # 0)
       ELSE /\ s.AuthPlugin = <<>> /\ s.Attrs = {} /\ s.CharacterSet = 0
            /\ s.MaxPacketSize < 16777216
            /\ ClientConnectWithDB \in s.Capability =>
                   \A i \in 1..Len(s.Auth) : s.Auth[i] # 0

\* the HandshakeResponse packets written: every combination of the six
\* capability bits that shape the format, with the fields it carries
CodecResponses ==
    {s \in [Capability : SUBSET {ClientProtocol41, ClientSecureConnection,
                                 ClientPluginAuth, ClientPluginAuthLenencClientData,
                                 ClientConnectWithDB, ClientConnectAttrs},
            MaxPacketSize : {65536, 16777216},
            CharacterSet : {0, 33},
            UserName : {Str(<<"c", "1", ".", "a">>)},
            DBName : {<<>>, Str(<<"d">>)},
            Auth : {<<>>, <<7, 0, 9>>, <<7, 9>>},
            AuthPlugin : {<<>>, Str(<<"a">>)},
            Attrs : {{}, {<<Str(<<"a">>), Str(<<"c">>)>>, <<Str(<<"c">>), <<>> >>}}] :
        Carried(s)}

\* hs1.Write(b) on a new Buffer
CodecWriteHandshake(hs) ==
    /\ chist.op = "none"
    /\ cbuf' = HandshakeWrite(hs)
    /\ chist' = [vals |-> <<>>, cut |-> 0, op |-> "writeHandshake", s |-> hs]
    /\ UNCHANGED notCodec

\* hs2.Read(b2), hs2 being a zero Handshake
CodecReadHandshake ==
    /\ chist.op = "writeHandshake"
    /\ \E d \in {HandshakeRead(cbuf)} :
          chist' = [vals |-> <<>>, cut |-> 0, op |-> "readHandshake",
                    s |-> chist.s, err |-> d.err, got |-> d.s]
    /\ cbuf' = <<>>
    /\ UNCHANGED notCodec

\* res.Write(b) on a new Buffer; order is the order range s.Attrs yields
CodecWriteResponse(res, order) ==
    /\ chist.op = "none"
    /\ cbuf' = HandshakeResponseWrite(res, order)
    /\ chist' = [vals |-> <<>>, cut |-> 0, op |-> "writeResponse", s |-> res]
    /\ UNCHANGED notCodec

\* res2.Read(b2), res2 being a zero HandshakeResponse
CodecReadResponse ==
    /\ chist.op = "writeResponse"
    /\ \E d \in {HandshakeResponseRead(cbuf)} :
          chist' = [vals |-> <<>>, cut |-> 0, op |-> "readResponse",
                    s |-> chist.s, err |-> d.err, got |-> d.s]
    /\ cbuf' = <<>>
    /\ UNCHANGED notCodec

\* b.WriteLenencInt(x)
CodecWriteLenencInt(x) ==
    /\ chist.op \in {"none", "write", "cut", "read"}
    /\ Len(chist.vals) < MaxCodecVals
    /\ chist.cut = 0
    /\ cbuf' = cbuf \o WriteLenencInt(x)
    /\ chist' = [vals |-> Append(chist.vals, x), cut |-> 0, op |-> "write",
                 x |-> x, before |-> cbuf]
    /\ UNCHANGED notCodec

\* the Buffer ends early: the last byte of the last value is missing
CodecCut ==
    /\ chist.vals # <<>>
    /\ chist.cut < Len(WriteLenencInt(chist.vals[Len(chist.vals)]))
    /\ cbuf' = SubSeq(cbuf, 1, Len(cbuf) - 1)
    /\ chist' = [vals |-> chist.vals, cut |-> chist.cut + 1, op |-> "cut"]
    /\ UNCHANGED notCodec

\* b.ReadLenencInt()
CodecReadLenencInt ==
    /\ chist.vals # <<>>
    /\ \E r \in {ReadLenencInt(cbuf)} :
          /\ cbuf' = r.b
          /\ chist' = [vals |-> Tail(chist.vals),
                       cut |-> IF Len(chist.vals) = 1 THEN 0 ELSE chist.cut,
                       op |-> "read", x |-> Head(chist.vals),
                       short |-> Len(chist.vals) = 1 /\ chist.cut > 0,
                       ok |-> r.ok, v |-> r.v, before |-> cbuf]
    /\ UNCHANGED notCodec

CodecNext ==
    \/ \E x \in LenencInts : CodecWriteLenencInt(x)
    \/ CodecCut
    \/ CodecReadLenencInt
    \/ \E hs \in CodecHandshakes : CodecWriteHandshake(hs)
    \/ CodecReadHandshake
    \/ \E res \in CodecResponses :
           \E order \in MapOrders(res.Attrs) : CodecWriteResponse(res, order)
    \/ CodecReadResponse

SpecCodec == CodecInit /\ [][CodecNext]_vars

----------------------------------------------------------------------------
(* SpecRelay: RelayPackets between the client connection, which is         *)
(* compressed, and the backend connection, which is not.  The client sends *)
(* commands, each numbered from 0; the backend answers a command with      *)
(* packets that continue the command's numbers; copyInboundPackets and     *)
(* copyOutboundPackets run side by side, one call at a time.               *)

\* commands the client sends
MaxCommands == 2
\* packets of the backend's answer to one command
MaxReplies == 2

\* the counters of the two connections when the auth exchange is over
StartSequences == {5, 6}

\* a command: one wire packet, or a payload of MaxPayloadLen + 1 bytes in two
\* wire packets; quiet when the backend sends nothing back
CommandKinds == [chunks : {1, 2}, quiet : BOOLEAN]

CommandData(id, kind) ==
    Payload(id, OtherByte, IF kind.chunks = 1 THEN 1 ELSE MaxPayloadLen + 1)

\* the packets of an answer: a row, a row that does not fit the pending-write
\* buffer, OK, EOF, Err and the empty packet
ReplyKinds == {"row", "big", "ok", "eof", "err", "empty"}

ReplyData(id, kind) ==
    CASE kind = "row" -> Payload(id, OtherByte, 1)
      [] kind = "big" -> Payload(id, OtherByte, maxBufferLen)
      [] kind = "ok" -> Payload(id, HeaderOK, 7)
      [] kind = "eof" -> Payload(id, HeaderEOF, 5)
      [] kind = "err" -> Payload(id, HeaderErr, 9)
      [] kind = "empty" -> <<>>

\* the compressed frames a peer puts bs in, numbered from seq
RECURSIVE PeerZFrames(_, _)
PeerZFrames(bs, seq) ==
    LET Frame(x) ==
            IF BLen(x) < minCompressLen
            THEN Cat(FrameHeader(BLen(x), seq, 0), x)
            ELSE Cat(FrameHeader(ZlibLen(BLen(x)), seq, BLen(x)), ZlibDeflate(x))
    IN IF BLen(bs) > MaxPayloadLen
       THEN Cat(Frame(Take(bs, MaxPayloadLen)),
                PeerZFrames(Drop(bs, MaxPayloadLen), (seq + 1) % 256))
       ELSE Frame(bs)

RelayInit ==
    /\ SpecWireIdle
    /\ FrameIdle
    /\ RouteIdle
    /\ SessIdle
    /\ GwIdle
    /\ CodecIdle
    /\ \E s \in StartSequences : \E t \in StartSequences :
           RelayStart([conn |-> [NewConn EXCEPT !.sequence = s],
                       backendConn |-> [NewConn EXCEPT !.sequence = t]])

\* handleConn: conn.EnableCompression(); RelayPackets up to its select
RelayPackets ==
    /\ ptask.inbound.pc = "none"
    /\ pconn' = StartRelay(pconn, TRUE)
    /\ ptask' = [ptask EXCEPT !.inbound.pc = "read", !.outbound.pc = "read"]
    /\ UNCHANGED <<notRelay, pwire, phist>>

\* RelayPackets returns on the first error and handleConn closes both
\* connections
RelayClose ==
    /\ ptask.errCh # <<>> /\ ~ptask.closed
    /\ ptask' = [ptask EXCEPT !.closed = TRUE]
    /\ UNCHANGED <<notRelay, pconn, pwire, phist>>

\* the call a goroutine is in fails on the closed connections
TaskClosed(t) ==
    /\ ptask.closed /\ ptask[t].pc \notin {"none", "done"}
    /\ ptask' = [ptask EXCEPT ![t] = [pc |-> "done", b |-> <<>>],
                              !.errCh = Append(@, "closed")]
    /\ UNCHANGED <<notRelay, pconn, pwire, phist>>

\* the answer to the last command has reached the client whole
ResponseDelivered ==
    /\ phist.final /\ pwire.backend = <<>>
    /\ ptask.outbound.pc = "read"
    /\ Unflushed(pconn["conn"]) = <<>>

\* the client sends a command: the first one, or the next one after a quiet
\* command or after the answer to the last one
ClientCommand(kind) ==
    /\ ptask.inbound.pc # "none" /\ ~ptask.closed
    /\ Len(phist.cmds) < MaxCommands
    /\ \/ phist.cmds = <<>>
       \/ phist.cmds # <<>> /\ phist.cmds[Len(phist.cmds)].quiet
       \/ ResponseDelivered
    /\ \E packets \in {PeerFrames(CommandData(Len(phist.cmds) + 1, kind), 0)} :
          /\ pwire' = [pwire EXCEPT !.client = Cat(@, PeerZFrames(packets, 0))]
          /\ phist' = [phist EXCEPT !.cmds = Append(@, kind),
                                    !.sent = @ \o HeadersOf(packets),
                                    !.replies = <<>>, !.final = FALSE]
    /\ UNCHANGED <<notRelay, pconn, ptask>>

\* the backend has every packet of every command, numbered as the client
\* numbered it
BackendHasCommand ==
    /\ phist.cmds # <<>>
    /\ HeadersOf(pconn["backendConn"].tx) = phist.sent

\* the backend sends the next packet of its answer
BackendReply(kind, last) ==
    /\ ~ptask.closed
    /\ BackendHasCommand
    /\ ~phist.cmds[Len(phist.cmds)].quiet
    /\ ~phist.final /\ Len(phist.replies) < MaxReplies
    /\ last => kind \in {"ok", "eof", "err"}
    /\ \E data \in {ReplyData(100 + phist.nrep, kind)} :
       \E seq \in {(phist.cmds[Len(phist.cmds)].chunks + Len(phist.replies)) % 256} :
          /\ pwire' = [pwire EXCEPT
                          !.backend = Cat(@, Cat(PacketHeader(BLen(data), seq), data))]
          /\ phist' = [phist EXCEPT !.replies = Append(@, data),
                                    !.nrep = @ + 1, !.final = last]
    /\ UNCHANGED <<notRelay, pconn, ptask>>

\* a counter of a Conn
Counter(c, f) == IF f = "sequence" THEN c.sequence ELSE c.compressor.sequence

\* the goroutines that have changed each counter, after task has taken
\* connection e from c0 to c1
Wrote(task, e, c0, c1) ==
    [phist.writers EXCEPT
        ![e] = [f \in Counters |->
                   IF Counter(c1, f) # Counter(c0, f) THEN @[f] \cup {task} ELSE @[f]]]

\* a goroutine sends its error to errCh and returns
TaskFailed(t, msg) ==
    [ptask EXCEPT ![t] = [pc |-> "done", b |-> <<>>], !.errCh = Append(@, msg)]

\* copyInboundPackets: b.Reset(); remote.ReadPartialPacket(&b)
InboundRead ==
    /\ ptask.inbound.pc = "read" /\ ~ptask.closed
    /\ \E r \in {ReadPartialPacket(pconn["conn"], pwire.client)} :
          /\ r.st # "block"
          /\ pconn' = [pconn EXCEPT !["conn"] = r.c]
          /\ pwire' = [pwire EXCEPT !.client = r.rx]
          /\ ptask' = IF r.st = "ok"
                      THEN [ptask EXCEPT !.inbound = [pc |-> "reset", b |-> r.data]]
                      ELSE TaskFailed("inbound", "read from remote failed")
          /\ phist' = [phist EXCEPT
                          !.writers = Wrote("inbound", "conn", pconn["conn"], r.c)]
    /\ UNCHANGED notRelay

\* copyInboundPackets: backend.SetResetOption(mysql.SeqResetOnWrite)
InboundReset ==
    /\ ptask.inbound.pc = "reset" /\ ~ptask.closed
    /\ pconn' = [pconn EXCEPT
                    !["backendConn"] = SetResetOption(@, {SeqResetOnWrite})]
    /\ ptask' = [ptask EXCEPT !.inbound.pc = "write"]
    /\ UNCHANGED <<notRelay, pwire, phist>>

\* copyInboundPackets: backend.WritePacket(b.Bytes()); backend.Flush()
InboundWrite ==
    /\ ptask.inbound.pc = "write" /\ ~ptask.closed
    /\ \E w \in {WritePacket(pconn["backendConn"], ptask.inbound.b)} :
       \E c \in {IF w.err THEN w.c ELSE Flush(w.c)} :
          /\ pconn' = [pconn EXCEPT !["backendConn"] = c]
          /\ ptask' = IF w.err THEN TaskFailed("inbound", "write to backend failed")
                      ELSE [ptask EXCEPT !.inbound = [pc |-> "read", b |-> <<>>]]
          /\ phist' = [phist EXCEPT
                          !.writers = Wrote("inbound", "backendConn",
                                            pconn["backendConn"], c)]
    /\ UNCHANGED <<notRelay, pwire>>

\* copyOutboundPackets: b.Reset(); backend.ReadPartialPacket(&b)
OutboundRead ==
    /\ ptask.outbound.pc = "read" /\ ~ptask.closed
    /\ \E r \in {ReadPartialPacket(pconn["backendConn"], pwire.backend)} :
          /\ r.st # "block"
          /\ pconn' = [pconn EXCEPT !["backendConn"] = r.c]
          /\ pwire' = [pwire EXCEPT !.backend = r.rx]
          /\ ptask' = IF r.st = "ok"
                      THEN [ptask EXCEPT !.outbound = [pc |-> "reset", b |-> r.data]]
                      ELSE TaskFailed("outbound", "read from backend failed")
          /\ phist' = [phist EXCEPT
                          !.writers = Wrote("outbound", "backendConn",
                                            pconn["backendConn"], r.c)]
    /\ UNCHANGED notRelay

\* copyOutboundPackets: remote.SetResetOption(mysql.SeqResetOnRead)
OutboundReset ==
    /\ ptask.outbound.pc = "reset" /\ ~ptask.closed
    /\ pconn' = [pconn EXCEPT !["conn"] = SetResetOption(@, {SeqResetOnRead})]
    /\ ptask' = [ptask EXCEPT !.outbound.pc = "write"]
    /\ UNCHANGED <<notRelay, pwire, phist>>

\* copyOutboundPackets: remote.WritePacket(b.Bytes())
OutboundWrite ==
    /\ ptask.outbound.pc = "write" /\ ~ptask.closed
    /\ \E w \in {WritePacket(pconn["conn"], ptask.outbound.b)} :
          /\ pconn' = [pconn EXCEPT !["conn"] = w.c]
          /\ ptask' = IF w.err THEN TaskFailed("outbound", "write to remote failed")
                      ELSE [ptask EXCEPT !.outbound.pc = "flush"]
          /\ phist' = [phist EXCEPT
                          !.writers = Wrote("outbound", "conn", pconn["conn"], w.c),
                          !.relayed = IF w.err THEN @
                                      ELSE Append(@, ptask.outbound.b),
                          !.fits = @ /\ PendingAfter(pconn["conn"],
                                                     BLen(ptask.outbound.b))
                                            <= maxBufferLen]
    /\ UNCHANGED <<notRelay, pwire>>

\* copyOutboundPackets: the packets after which it calls remote.Flush()
FlushesAfter(b) ==
    \/ BLen(b) = 0
    \/ FirstByte(b) = HeaderOK
    \/ FirstByte(b) = HeaderEOF
    \/ FirstByte(b) = HeaderErr

\* copyOutboundPackets: remote.Flush() after the packets that call for it
OutboundFlush ==
    /\ ptask.outbound.pc = "flush" /\ ~ptask.closed
    /\ \E c \in {IF FlushesAfter(ptask.outbound.b)
                 THEN Flush(pconn["conn"]) ELSE pconn["conn"]} :
          /\ pconn' = [pconn EXCEPT !["conn"] = c]
          /\ phist' = [phist EXCEPT
                          !.writers = Wrote("outbound", "conn", pconn["conn"], c)]
    /\ ptask' = [ptask EXCEPT !.outbound = [pc |-> "read", b |-> <<>>]]
    /\ UNCHANGED <<notRelay, pwire>>

RelayNext ==
    \/ RelayPackets
    \/ RelayClose
    \/ \E t \in {"inbound", "outbound"} : TaskClosed(t)
    \/ \E kind \in CommandKinds : ClientCommand(kind)
    \/ \E kind \in ReplyKinds : \E last \in BOOLEAN : BackendReply(kind, last)
    \/ InboundRead
    \/ InboundReset
    \/ InboundWrite
    \/ OutboundRead
    \/ OutboundReset
    \/ OutboundWrite
    \/ OutboundFlush

SpecRelay == RelayInit /\ [][RelayNext]_vars

----------------------------------------------------------------------------
(* SpecRaw: a session without compression, from the last two copyPacket    *)
(* calls of exchangeAuth into RelayRawBytes.  The client sends its last    *)
(* auth packet and the backend the final OK or Err; either may go on       *)
(* sending at once.  Conn reads through a bufio.Reader, which takes from   *)
(* the connection whatever has arrived, up to its size; the io.Copy calls  *)
(* of RelayRawBytes read from RawConn(), the connection itself.            *)

\* pieces either peer sends behind its last packet of the auth exchange
MaxTrailing == 2
\* lengths of a piece
TrailingLens == {1, 5}

\* the numbers of bytes behind the packet it returns that a read through the
\* bufio.Reader may have taken from the connection: any number of the bytes
\* rest that have been sent, as many as have arrived, within the reader's size
ReadAhead(rest) ==
    {n \in {0, 1, BLen(rest)} : n <= BLen(rest) /\ n <= defaultReaderSize}

RawInit ==
    /\ SpecWireIdle
    /\ FrameIdle
    /\ RouteIdle
    /\ SessIdle
    /\ GwIdle
    /\ CodecIdle
    /\ \E s \in StartSequences :
           pconn = [e \in {"conn", "backendConn"} |-> [NewConn EXCEPT !.sequence = s]]
    /\ pwire = [client |-> <<>>, backend |-> <<>>,
                r |-> [e \in {"conn", "backendConn"} |-> <<>>]]
    /\ ptask = [pc |-> "authC", inbound |-> "none", outbound |-> "none",
                errCh |-> <<>>]
    /\ phist = [auth |-> {}, pieces |-> [e \in {"client", "backend"} |-> 0],
                trailing |-> [e \in {"client", "backend"} |-> <<>>],
                base |-> [e \in {"conn", "backendConn"} |-> 0],
                final |-> <<>>]

\* the client sends its last packet of the auth exchange
RawClientAuth ==
    /\ ptask.pc = "authC" /\ "client" \notin phist.auth
    /\ pwire' = [pwire EXCEPT
           !.client = Cat(@, PeerFrames(Payload(1, OtherByte, 32),
                                        pconn["conn"].sequence))]
    /\ phist' = [phist EXCEPT !.auth = @ \cup {"client"}]
    /\ UNCHANGED <<notRelay, pconn, ptask>>

\* the backend sends the packet that ends the auth exchange
RawBackendAuth(first) ==
    /\ ptask.pc = "authB" /\ "backend" \notin phist.auth
    /\ pwire' = [pwire EXCEPT
           !.backend = Cat(@, PeerFrames(Payload(2, first, 7),
                                         pconn["backendConn"].sequence))]
    /\ phist' = [phist EXCEPT !.auth = @ \cup {"backend"}]
    /\ UNCHANGED <<notRelay, pconn, ptask>>

\* a peer sends more bytes behind its last packet of the auth exchange
RawTrailing(peer, len) ==
    /\ ptask.pc # "done" /\ peer \in phist.auth
    /\ phist.pieces[peer] < MaxTrailing
    /\ \E data \in {Payload(10 * (phist.pieces[peer] + 1)
                               + (IF peer = "client" THEN 0 ELSE 5),
                            OtherByte, len)} :
          /\ pwire' = [pwire EXCEPT ![peer] = Cat(@, data)]
          /\ phist' = [phist EXCEPT !.pieces[peer] = @ + 1,
                                    !.trailing[peer] = Cat(@, data)]
    /\ UNCHANGED <<notRelay, pconn, ptask>>

\* exchangeAuth: copyPacket(backendConn, clientConn); the bufio.Reader of
\* clientConn is left with ahead of the bytes behind the packet
RawAuthC2B ==
    /\ ptask.pc = "authC"
    /\ \E r \in {ReadPacket(pconn["conn"], Cat(pwire.r["conn"], pwire.client))} :
       \E cp \in {copyPacket(pconn["backendConn"], r)} :
       \E ahead \in ReadAhead(cp.rx) :
          /\ cp.st = "ok"
          /\ pconn' = [pconn EXCEPT !["conn"] = cp.src, !["backendConn"] = cp.dst]
          /\ pwire' = [pwire EXCEPT !.r["conn"] = Take(cp.rx, ahead),
                                    !.client = Drop(cp.rx, ahead)]
    /\ ptask' = [ptask EXCEPT !.pc = "authB"]
    /\ UNCHANGED <<notRelay, phist>>

\* exchangeAuth: copyPacket(clientConn, backendConn) of the final packet, the
\* bufio.Reader of backendConn being left with ahead of the bytes behind it;
\* handleConn: RelayRawBytes up to its select
RawAuthB2C ==
    /\ ptask.pc = "authB"
    /\ \E r \in {ReadPacket(pconn["backendConn"],
                            Cat(pwire.r["backendConn"], pwire.backend))} :
       \E cp \in {copyPacket(pconn["conn"], r)} :
       \E ahead \in ReadAhead(cp.rx) :
          /\ cp.st = "ok" /\ IsTerminal(cp.data)
          /\ pconn' = StartRelay([pconn EXCEPT !["conn"] = cp.dst,
                                               !["backendConn"] = cp.src], FALSE)
          /\ pwire' = [pwire EXCEPT !.r["backendConn"] = Take(cp.rx, ahead),
                                    !.backend = Drop(cp.rx, ahead)]
          /\ phist' = [phist EXCEPT
                 !.base = [e \in {"conn", "backendConn"} |->
                              BLen(IF e = "conn" THEN cp.dst.tx ELSE cp.src.tx)],
                 !.final = cp.data]
    /\ ptask' = [ptask EXCEPT !.pc = "relay", !.inbound = "copy",
                              !.outbound = "copy"]
    /\ UNCHANGED notRelay

\* RelayRawBytes: io.Copy(backend.RawConn(), remote.RawConn()) moves what
\* has come from the client
RawCopyInbound ==
    /\ ptask.pc = "relay" /\ ptask.inbound = "copy"
    /\ pwire.client # <<>>
    /\ pconn' = [pconn EXCEPT !["backendConn"].tx = Cat(@, pwire.client)]
    /\ pwire' = [pwire EXCEPT !.client = <<>>]
    /\ UNCHANGED <<notRelay, ptask, phist>>

\* RelayRawBytes: io.Copy(remote.RawConn(), backend.RawConn()) moves what
\* has come from the backend
RawCopyOutbound ==
    /\ ptask.pc = "relay" /\ ptask.outbound = "copy"
    /\ pwire.backend # <<>>
    /\ pconn' = [pconn EXCEPT !["conn"].tx = Cat(@, pwire.backend)]
    /\ pwire' = [pwire EXCEPT !.backend = <<>>]
    /\ UNCHANGED <<notRelay, ptask, phist>>

\* a peer closes its connection, everything it sent having been taken: the
\* io.Copy that reads from it returns, its goroutine sends to errCh,
\* RelayRawBytes and handleConn return
RawPeerClosed(peer) ==
    /\ ptask.pc = "relay"
    /\ pwire[peer] = <<>>
    /\ ptask' = [ptask EXCEPT
           !.pc = "done",
           !.inbound = IF peer = "client" THEN "done" ELSE @,
           !.outbound = IF peer = "backend" THEN "done" ELSE @,
           !.errCh = Append(@, IF peer = "client" THEN "remote -> backend closed"
                               ELSE "backend -> remote closed")]
    /\ UNCHANGED <<notRelay, pconn, pwire, phist>>

RawNext ==
    \/ RawClientAuth
    \/ \E first \in {HeaderOK, HeaderErr} : RawBackendAuth(first)
    \/ \E peer \in {"client", "backend"} : \E len \in TrailingLens :
           RawTrailing(peer, len)
    \/ RawAuthC2B
    \/ RawAuthB2C
    \/ RawCopyInbound
    \/ RawCopyOutbound
    \/ \E peer \in {"client", "backend"} : RawPeerClosed(peer)

SpecRaw == RawInit /\ [][RawNext]_vars

----------------------------------------------------------------------------
(* Claims on SpecRoute.                                                    *)

\* the same letters, whatever their case
SameLetters(s, t) ==
    /\ Len(s) = Len(t)
    /\ \A i \in 1..Len(s) :
           \/ s[i] = t[i]
           \/ s[i] \in 65..90 /\ t[i] = s[i] + 32
           \/ t[i] \in 65..90 /\ s[i] = t[i] + 32

\* addr ends in ':' followed by digits
EndsInPort(addr) ==
    \E n \in 1..(Len(addr) - 1) :
        /\ addr[Len(addr) - n] = Asc(":")
        /\ \A k \in 0..(n - 1) : addr[Len(addr) - k] \in 48..57

----------------------------------------------------------------------------
(* Claims on SpecFrame.                                                    *)

IsPrefix(x, y) == Len(x) <= Len(y) /\ x = SubSeq(y, 1, Len(x))

\* what the receiver has read is what the sender wrote, in order, nothing
\* failed, and what is flushed can be read
Delivered ==
    /\ fstate.err = "none"
    /\ IsPrefix(frcvd, fsent)
    /\ (Len(frcvd) < Len(fsent) /\ Unflushed(fconn[fstate.sender]) = <<>>) =>
           ReadPacket(fconn[Peer(fstate.sender)], fconn[fstate.sender].tx).st = "ok"
    /\ (Len(frcvd) = Len(fsent) /\ Unflushed(fconn[fstate.sender]) = <<>>) =>
           fconn[fstate.sender].tx = <<>>

\* C7: without compression and without any reset call, payloads shorter than
\* MaxPayloadLen (the empty one included) that one end writes and flushes are
\* returned by the peer's successive ReadPacket calls, byte-equal and in order,
\* in both directions and over repeated exchanges.
C7_RoundTrip ==
    (~fstate.compress /\ fstate.noReset /\ fstate.short) => Delivered

\* a second exchange has delivered the server's batch to the client
C7_Witness ==
    /\ ~fstate.compress /\ fstate.noReset /\ fstate.short
    /\ fstate.exch = 1 /\ fstate.sender = "server" /\ BatchDone
    /\ Len(frcvd) = 2 /\ frcvd[1] = <<>> /\ BLen(frcvd[2]) = MaxPayloadLen - 1

\* the counters of both layers agree between batches
Lockstep ==
    BatchDone =>
        /\ fconn["client"].sequence = fconn["server"].sequence
        /\ fconn["client"].compressor.sequence = fconn["server"].compressor.sequence

\* C8: with compression on both ends and SetResetOption(onWrite) by the
\* requester, SetResetOption(onRead) by the responder after each exchange,
\* every payload is received byte-equal and in order, no error is raised at
\* either layer, and the counters of each layer stay in lockstep.
C8_CompressedRoundTrip ==
    (fstate.compress /\ fstate.paired) => (Delivered /\ Lockstep)

\* C8 for payloads that fit the pending-write buffer (no flush inside
\* Compressor.Write)
C8_FittingRoundTrip ==
    (fstate.compress /\ fstate.paired /\ fstate.fits) => (Delivered /\ Lockstep)

\* a step of SpecFrame that is the sender's conn.Flush()
IsFlushStep ==
    /\ fsent' = fsent /\ frcvd' = frcvd
    /\ fstate'.err = "none" /\ fstate.err = "none"
    /\ fconn' # fconn

\* the frame the claim expects for the pending bytes, numbered seq
ExpectedFrame(pending, seq) ==
    IF BLen(pending) < 128
    THEN Cat(FrameHeader(BLen(pending), seq, 0), pending)
    ELSE Cat(FrameHeader(BLen(ZlibDeflate(pending)), seq, BLen(pending)),
             ZlibDeflate(pending))

FlushEmitsOneFrame ==
    (fstate.compress /\ IsFlushStep) =>
        LET s == fstate.sender
            z == fconn[s].compressor
            seq == IF SeqResetOnWrite \in z.seqreset THEN 0 ELSE z.sequence
        IN /\ fconn'[s].tx = Cat(fconn[s].tx, ExpectedFrame(z.writeBuffer, seq))
           /\ fconn'[s].compressor.writeBuffer = <<>>
           /\ fconn'[s].wbuf = <<>>

\* C12: every Compressor.Flush emits the pending-write buffer as exactly one
\* frame: with uncompressed-length 0 and the pending bytes as literal payload
\* when fewer than 128 bytes are pending, and with the zlib deflate of the
\* pending bytes as payload and their count as uncompressed-length when 128
\* bytes or more are pending.
C12_CompressionThreshold == [][FlushEmitsOneFrame]_vars

\* 127 pending bytes have left as a literal frame
C12_Witness127 ==
    /\ fstate.compress /\ fstate.err = "none"
    /\ \E i \in 1..(Len(fconn[fstate.sender].tx) - 1) :
           LET tx == fconn[fstate.sender].tx
           IN /\ tx[i].k = "zhdr" /\ tx[i].a = 127 /\ tx[i].c = 0
              /\ tx[i + 1].k = "hdr" /\ tx[i + 1].a = 123

\* 128 pending bytes have left as a deflated frame
C12_Witness ==
    /\ fstate.compress /\ fstate.err = "none"
    /\ \E i \in 1..(Len(fconn[fstate.sender].tx) - 1) :
           LET tx == fconn[fstate.sender].tx
           IN /\ tx[i].k = "zhdr" /\ tx[i].c = 128 /\ tx[i].a = tx[i + 1].len
              /\ tx[i + 1].k = "zlib" /\ BLen(tx[i + 1].z) = 128

\* this step is a WritePacket call on a compressed connection
CompressedWriteStep == Len(fsent') > Len(fsent) /\ fstate.compress

\* Compressor.Write emits a frame in this WritePacket step exactly when the
\* pending bytes and the packet together exceed limit, and leaves no more
\* than limit bytes pending
AutoFlushAt(limit) ==
    LET c == fconn[fstate.sender]
        d == fconn'[fstate.sender]
        len == BLen(fsent'[Len(fsent')])
    IN /\ d.tx # c.tx <=> PendingAfter(c, len) > limit
       /\ BLen(d.compressor.writeBuffer) <= limit

\* C30: Compressor.Write emits a frame exactly when the bytes passed to it
\* would make the pending-write buffer exceed 2^24-1 bytes (MaxPayloadLen),
\* and the buffer never holds more than that.
C30_AutoFlushThreshold ==
    [][CompressedWriteStep => AutoFlushAt(MaxPayloadLen)]_vars

\* the same with the limit of the code, maxBufferLen (2^23-1)
C30_AutoFlushAtMaxBufferLen ==
    [][CompressedWriteStep => AutoFlushAt(maxBufferLen)]_vars

\* what Compressor.Write returns for the first chunk of the payload written
\* in this step, after the 4 bytes of its packet header
ReportedCount ==
    LET c == fconn[fstate.sender]
        p == Take(fsent'[Len(fsent')], MaxPayloadLen)
        marked == IF SeqResetOnWrite \in c.seqreset
                  THEN [c EXCEPT !.sequence = 0] ELSE c
        head == CompressorWrite(marked, PacketHeader(BLen(p), marked.sequence))
    IN [head |-> head.n, body |-> CompressorWrite(head.c, p).n, len |-> BLen(p)]

\* the Write calls of this WritePacket step report every byte they took and
\* WritePacket returns no error
CompleteWrite ==
    /\ ReportedCount.head = 4
    /\ ReportedCount.body = ReportedCount.len
    /\ fstate'.err = "none"

\* C36: Compressor.Write returns len(p) whenever it has buffered or flushed
\* every byte of p, also when p does not fit the rest of the pending-write
\* buffer and a frame is emitted in the middle of p; WritePacket on a
\* compressed connection does not fail because the buffer filled up.
C36_CompleteWrites == [][CompressedWriteStep => CompleteWrite]_vars

\* the same for the payloads that fit the pending-write buffer
C36_FittingCompleteWrites ==
    [][(CompressedWriteStep /\ fstate'.fits) => CompleteWrite]_vars

\* WritePacket failed on the first payload of a compressed connection, all
\* of it sent in a frame or pending
C36_WriteFailed ==
    /\ fstate.compress /\ fstate.err = "write" /\ Len(fsent) = 1
    /\ fconn[fstate.sender].tx # <<>>
    /\ BLen(fconn[fstate.sender].compressor.writeBuffer) = 4

\* a packet that fills the pending-write buffer to maxBufferLen + 4 bytes was
\* written and a frame went out before any Flush call
C30_FrameEmitted ==
    /\ fstate.compress /\ Len(fsent) = 1 /\ BLen(fsent[1]) = maxBufferLen
    /\ fconn[fstate.sender].tx # <<>>

----------------------------------------------------------------------------
(* Claims on SpecWire.                                                     *)

\* C6: WritePacket on a payload whose length is a positive multiple of
\* MaxPayloadLen emits the full-size chunks and then one zero-length wire
\* packet with the next sequence number; a payload of MaxPayloadLen - 1
\* bytes is emitted as exactly one wire packet.
C6_ZeroLengthTerminator ==
    (wlast.op = "write" /\ ~wlast.err) =>
        /\ (wlast.len > 0 /\ wlast.len % MaxPayloadLen = 0) =>
               /\ Len(wlast.hdrs) = (wlast.len \div MaxPayloadLen) + 1
               /\ wlast.hdrs[Len(wlast.hdrs)].plen = 0
               /\ \A i \in 1..(Len(wlast.hdrs) - 1) :
                      /\ wlast.hdrs[i].plen = MaxPayloadLen
                      /\ wlast.hdrs[i + 1].seq = (wlast.hdrs[i].seq + 1) % 256
        /\ wlast.len = MaxPayloadLen - 1 => Len(wlast.hdrs) = 1

\* C9: on a fresh Conn, N consecutive WritePacket calls with payloads shorter
\* than MaxPayloadLen put the sequence bytes 0, 1, ..., (N-1) mod 256 on the
\* wire, one wire packet each and without error (wcount is N, the last call
\* is the N-th); and the first WritePacket after SetResetOption marked
\* onWrite emits sequence 0 whatever the counter was.
C9_WriteSequence ==
    /\ wcount > 0 =>
           /\ wlast.op = "write" /\ ~wlast.err
           /\ wlast.hdrs = <<[plen |-> wlast.len, seq |-> (wcount - 1) % 256]>>
           /\ wlast.body = wlast.len
    /\ (wlast.op = "write" /\ wlast.mark) =>
           /\ ~wlast.err
           /\ wlast.hdrs[1].seq = 0
           /\ wc.sequence = Len(wlast.hdrs) % 256

\* the 257th write of a fresh Conn has wrapped to sequence 0
C9_Witness ==
    /\ wcount = 257
    /\ wlast.before = 0 /\ wlast.hdrs[1].seq = 0 /\ wc.sequence = 1

\* the sequence byte ReadPartialPacket expects: 0 when an onRead mark is
\* pending, else the counter
WireExpected == IF wlast.mark THEN 0 ELSE wlast.before

OneShotStep ==
    /\ wlast'.op = "reset" =>
           /\ wc'.seqreset = wlast'.opt
           /\ wc'.sequence = wc.sequence
    /\ wlast'.op = "read" =>
           LET expected == IF SeqResetOnRead \in wc.seqreset THEN 0 ELSE wc.sequence
           IN /\ wc'.seqreset = wc.seqreset \ {SeqResetOnRead}
              /\ wlast'.st = "ok" <=> wlast'.seq = expected
              /\ wc'.sequence = IF wlast'.st = "ok" THEN (expected + 1) % 256
                                ELSE expected
    /\ wlast'.op = "write" =>
           LET first == IF SeqResetOnWrite \in wc.seqreset THEN 0 ELSE wc.sequence
           IN /\ ~wlast'.err
              /\ wc'.seqreset = wc.seqreset \ {SeqResetOnWrite}
              /\ \A i \in 1..Len(wlast'.hdrs) :
                     wlast'.hdrs[i].seq = (first + i - 1) % 256
              /\ wc'.sequence = (first + Len(wlast'.hdrs)) % 256

\* C11: SetResetOption(flags) sets the marks and leaves the counter; a
\* ReadPartialPacket zeroes the counter before comparing exactly when the
\* onRead mark is pending and clears that mark only; a WritePacket zeroes the
\* counter before numbering exactly when the onWrite mark is pending and
\* clears that mark only; without a pending mark of its direction a call
\* continues from the counter.
C11_OneShotMarks == [][OneShotStep]_vars

\* a WritePacket consumed its mark while the counter was not 0 and left the
\* onRead mark of the same SetResetOption call pending
C11_Witness ==
    /\ wlast.op = "write" /\ wlast.mark /\ wlast.before # 0
    /\ wc.seqreset = {SeqResetOnRead}
    /\ wlast.hdrs[1].seq = 0

\* a ReadPartialPacket consumed the onRead mark and the following WritePacket
\* continued from the counter
C11_WitnessContinue ==
    /\ wlast.op = "write" /\ ~wlast.mark /\ wlast.before # 0
    /\ wc.seqreset = SeqResetNone
    /\ wlast.hdrs[1].seq = wlast.before

\* a payload of len bytes is longer than the bound, a uint64
Exceeds(len, limit) ==
    /\ limit[1] = 0 /\ limit[2] = 0
    /\ len > limit[3] * 65536 + limit[4]

\* C19: with a bound set by SetMaxAllowedPacket, ReadPacket on a packet
\* whose payload (over all its wire packets) is longer than the bound
\* returns an error and not the payload; a packet within the bound is
\* returned.
C19_OversizedPacket ==
    (wlast.op = "readPacket" /\ wlast.limit # MaxUint64) =>
        IF Exceeds(wlast.len, wlast.limit)
        THEN wlast.st = "err"
        ELSE wlast.st = "ok" /\ wlast.returned = wlast.sent

\* a packet of two wire packets, one byte longer than the bound, was returned
C19_ReturnedOversized ==
    /\ wlast.op = "readPacket" /\ wlast.limit = Uint64(MaxPayloadLen)
    /\ wlast.len = MaxPayloadLen + 1
    /\ wlast.st = "ok" /\ wlast.returned = wlast.sent

\* the call returned no error and appended the whole payload the header
\* announced, or returned an error
WholeOrError ==
    wlast.st = "ok" => (wlast.n = wlast.len /\ BLen(wlast.data) = wlast.len)

\* C33: a ReadPartialPacket call that returns no error has appended exactly
\* the payload bytes the wire header announced and returns their number; a
\* ReadPacket call that returns no error returns a packet none of whose wire
\* packets was cut short; a stream that ends inside a payload makes both
\* return an error.
C33_WholeOrError ==
    /\ wlast.op = "read" /\ wlast.st = "ok" =>
           (wlast.n = BLen(wlast.sent) /\ wlast.appended = wlast.sent)
    /\ wlast.op = "readEnded" =>
           /\ WholeOrError
           /\ wlast.have < 4 + wlast.len => wlast.st = "err"

\* the same for the streams that end inside a header or after a whole wire
\* packet
C33_WholeOrErrorAtBoundary ==
    /\ wlast.op = "read" /\ wlast.st = "ok" =>
           (wlast.n = BLen(wlast.sent) /\ wlast.appended = wlast.sent)
    /\ (wlast.op = "readEnded" /\ wlast.have \notin 4..(3 + wlast.len)) =>
           /\ WholeOrError
           /\ wlast.have < 4 + wlast.len => wlast.st = "err"

\* ReadPacket returned one byte and no error for a wire packet that announced
\* MaxPayloadLen bytes and ended after the first
C33_TruncatedReturned ==
    /\ wlast.op = "readEnded" /\ wlast.call = "packet"
    /\ wlast.len = MaxPayloadLen /\ wlast.have = 5
    /\ wlast.st = "ok" /\ BLen(wlast.data) = 1

----------------------------------------------------------------------------
(* Claims on SpecSession.                                                  *)

\* the part of a user name after its first '.', "" when it has none
AfterFirstDot(u) ==
    IF \E i \in 1..Len(u) : u[i] = Asc(".")
    THEN SubSeq(u, 1 + CHOOSE i \in 1..Len(u) :
                           u[i] = Asc(".") /\ \A j \in 1..(i - 1) : u[j] # Asc("."),
                Len(u))
    ELSE <<>>

\* the response C1 allows towards the backend for the decoded response d
C1_Expected(d, c) ==
    [Capability |-> {b \in d.Capability \cup {ClientPluginAuth} :
                        /\ b # ClientCompress
                        /\ c.BackendInsecureTransport => b # ClientSecureConnection},
     MaxPacketSize |-> d.MaxPacketSize,
     CharacterSet |-> d.CharacterSet,
     UserName |-> AfterFirstDot(d.UserName),
     DBName |-> d.DBName,
     Auth |-> d.Auth,
     AuthPlugin |-> AuthInvalidMethod,
     Attrs |-> d.Attrs]

\* C1: every HandshakeResponse the session has sent to the backend (the copy
\* before and the copy after the backend TLS handshake) is the response
\* decoded from the client with Compress cleared, PluginAuth set, AuthPlugin
\* the unknown plugin name, SecureConnection cleared iff
\* BackendInsecureTransport, UserName without its cluster prefix and
\* everything else as decoded; the bytes sent are that response's encoding,
\* and they are what the backend reads next from its connection.
C1_ForwardedResponse ==
    /\ \A i \in 1..Len(shist.sent) :
          /\ shist.sent[i].res = C1_Expected(shist.decoded, conf)
          /\ \E order \in MapOrders(shist.decoded.Attrs) :
                shist.sent[i].bytes
                    = HandshakeResponseWrite(C1_Expected(shist.decoded, conf), order)
    /\ shist.sent # <<>> /\ sconn["backendConn"].tx # <<>> =>
          \E r \in {ReadPacket(sconn["backend"], sconn["backendConn"].tx)} :
              /\ r.st = "ok"
              /\ r.rx = <<>>
              /\ Bytes(r.data) = shist.sent[Len(shist.sent)].bytes

\* a response is on its way to the backend that had Compress and
\* SecureConnection set and PluginAuth clear when decoded, with a cluster
\* prefix, attributes and auth data, under BackendInsecureTransport
C1_Witness ==
    /\ shist.sent # <<>>
    /\ sconn["backendConn"].tx # <<>>
    /\ conf.BackendInsecureTransport
    /\ {ClientCompress, ClientSecureConnection, ClientConnectAttrs}
           \subseteq shist.decoded.Capability
    /\ ClientPluginAuth \notin shist.decoded.Capability
    /\ shist.decoded.UserName = Str(<<"c", "1", ".", "a">>)
    /\ shist.decoded.Attrs # {}
    /\ shist.decoded.Auth # <<>>
    /\ shist.sent[1].res.UserName = Str(<<"a">>)

\* payloads of the copies of one direction, in the order they were made
RECURSIVE Copied(_, _)
Copied(log, dir) ==
    IF log = <<>> THEN <<>>
    ELSE (IF Head(log).dir = dir THEN <<Head(log).data>> ELSE <<>>)
             \o Copied(Tail(log), dir)

\* a payload that ends the auth exchange
AuthTerminal(data) == data # <<>> /\ FirstByte(data) \in {0, 255}

\* what C3 says of the copies made so far
AuthExchangeInOrder ==
    \* strict alternation, starting backend to client
    /\ \A i \in 1..Len(shist.log) :
          shist.log[i].dir = IF i % 2 = 1 THEN "b2c" ELSE "c2b"
    \* each copy succeeded and put the whole packet, with the payload that
    \* was read, on the destination's connection before the next read
    /\ \A i \in 1..Len(shist.log) :
          /\ shist.log[i].st = "ok"
          /\ \E r \in {ReadPacket([NewConn EXCEPT !.sequence = shist.log[i].seq],
                                  shist.log[i].wire)} :
                r.st = "ok" /\ r.data = shist.log[i].data /\ r.rx = <<>>
    \* the payloads are the ones the backend and the client sent, in order
    /\ IsPrefix(Copied(shist.log, "b2c"), shist.beSent)
    /\ IsPrefix(Copied(shist.log, "c2b"), shist.cliSent)
    \* the loop has ended exactly when the last copy is a backend packet
    \* starting with OK or Err, and nothing was copied after such a packet
    /\ \A i \in 1..Len(shist.log) :
          (shist.log[i].dir = "b2c" /\ AuthTerminal(shist.log[i].data))
              => i = Len(shist.log)
    /\ sess.relay # "none" <=>
          /\ shist.log # <<>>
          /\ shist.log[Len(shist.log)].dir = "b2c"
          /\ AuthTerminal(shist.log[Len(shist.log)].data)
    \* once the loop has ended and the client has read all it can, it has
    \* every backend packet
    /\ \E r \in {ReadPacket(sconn["client"], sconn["conn"].tx)} :
          (sess.relay # "none" /\ r.st = "block") =>
              /\ ~shist.cliErr
              /\ shist.cliRcvd = Copied(shist.log, "b2c")
              /\ sconn["conn"].tx = <<>>

\* C3: exchangeAuth copies whole packets in strict alternation starting
\* backend to client, each payload byte-identical and flushed before the
\* next read; it ends exactly after the first backend packet that starts
\* with OK or Err, no client packet is read after it, and the client gets
\* the dialogue complete and in order.
C3_AuthExchange == AuthExchangeInOrder

\* the same for exchanges whose backend packets are shorter than
\* MaxPayloadLen
C3_ShortAuthExchange == shist.short => AuthExchangeInOrder

\* a dialogue of three backend packets and two client answers has ended
\* in OK and the client has read all of it
C3_ShortWitness ==
    /\ shist.short
    /\ sess.pc = "relay"
    /\ Len(shist.log) = 5
    /\ FirstByte(shist.log[5].data) = HeaderOK
    /\ Len(shist.cliRcvd) = 3

\* C4: when the client's first packet is a truncated HandshakeResponse with
\* the SSL bit, the session does not end on that packet: if it ends in
\* recvHandshakeResponse at all, the TLS handshake was made and the client
\* had sent a response on the TLS stream.
C4_TLSUpgrade ==
    (shist.first = "truncated" /\ sess.exit = "recvHandshakeResponse")
        => shist.second

\* a full first response with the SSL bit does take the session through the
\* TLS handshake to a second response and on to the dial
C4_FullResponseUpgrades ==
    /\ shist.first = "full"
    /\ shist.second
    /\ sess.pc = "dial"

C31_CompressionOptIn ==
    (sconn["conn"].compressor.on \/ sess.relay = "packets") => conf.EnableCompression

C13_WitnessRaw ==
    /\ sess.pc = "relay" /\ sess.relay = "raw"
    /\ ~shist.compress /\ ~sconn["conn"].compressor.on

\* the packets the session has sent to the client after its greeting: those
\* the client has read and, when the rest of the wire is one whole packet
\* numbered seq, that packet
SentToClient(seq, data) ==
    \/ /\ sconn["conn"].tx = PeerFrames(data, seq)
       /\ sconn["conn"].wbuf = <<>>
       /\ shist.cliRcvd = <<>>
    \/ /\ sconn["conn"].tx = <<>>
       /\ sconn["conn"].wbuf = <<>>
       /\ shist.cliRcvd = <<data>>

\* C14: a session whose connectBackend failed has terminated; it has sent
\* the client one Err packet and nothing else after the greeting, has dialed
\* once, has sent nothing to a backend and has entered neither the auth
\* exchange nor a relay.
C14_DialFailure ==
    sess.exit = "connectBackend" =>
        /\ sess.pc = "done"
        /\ SentToClient(IF shist.second THEN 3 ELSE 2,
                        ErrPacket(ErrText("connectBackend")))
        /\ ~shist.cliErr
        /\ shist.dials = 1 /\ ~sess.dialed
        /\ sconn["backendConn"] = NewConn /\ sconn["backend"] = NewConn
        /\ shist.sent = <<>> /\ shist.log = <<>> /\ shist.beSent = <<>>
        /\ sess.relay = "none"
        /\ "conn" \in sess.closed

\* after a TLS upgrade and a failed dial the client has read the Err packet
C14_Witness ==
    /\ sess.exit = "connectBackend" /\ shist.second
    /\ shist.cliRcvd = <<ErrPacket(ErrText("connectBackend"))>>
    /\ FirstByte(shist.cliRcvd[1]) = HeaderErr

\* the steps of handleConn between the receipt of the HandshakeResponse and
\* the end of the auth exchange
PreAuthSteps ==
    {"connectBackend", "recvInitialHandshake", "SendPacket", "tlsClient",
     "exchangeAuth"}

\* the last packet the session sent to the client is the Err packet it
\* builds around the error of the failed step
ErrSurfaced(step) ==
    LET err == ErrPacket(ErrText(step))
        tx == sconn["conn"].tx
        wire == PeerFrames(err, (sconn["conn"].sequence + 255) % 256)
    IN /\ sconn["conn"].wbuf = <<>>
       /\ IF tx = <<>>
          THEN shist.cliRcvd # <<>> /\ shist.cliRcvd[Len(shist.cliRcvd)] = err
          ELSE /\ Len(tx) >= Len(wire)
               /\ SubSeq(tx, Len(tx) - Len(wire) + 1, Len(tx)) = wire

\* no packet on the way to the client or read by it is an Err packet built by
\* sendErr
NoErrGenerated ==
    /\ \A i \in 1..Len(sconn["conn"].tx) : sconn["conn"].tx[i].k # "raw"
    /\ \A i \in 1..Len(shist.cliRcvd) :
           \A j \in 1..Len(shist.cliRcvd[i]) : shist.cliRcvd[i][j].k # "raw"

\* C15: a session that has ended at a step between the receipt of the
\* HandshakeResponse and the end of the auth exchange has sent the client an
\* Err packet (0xFF, the unknown state, the error message) as its last
\* packet; a session that has completed auth has generated no Err packet.
C15_ErrSurfaced ==
    /\ (sess.pc = "done" /\ sess.exit \in PreAuthSteps /\ ~shist.cliErr) =>
           ErrSurfaced(sess.exit)
    /\ sess.relay # "none" => NoErrGenerated

\* C15 for the steps up to the auth exchange, and after the auth exchange
C15_ErrSurfacedBeforeAuth ==
    /\ (sess.pc = "done" /\ sess.exit \in PreAuthSteps \ {"exchangeAuth"}) =>
           ErrSurfaced(sess.exit)
    /\ sess.relay # "none" => NoErrGenerated

\* the backend hung up during an auth exchange of short packets and the
\* session ended without an Err packet
C15_HangupWitness ==
    /\ sess.exit = "exchangeAuth" /\ shist.hangup /\ shist.short
    /\ ~ErrSurfaced("exchangeAuth") /\ NoErrGenerated

\* C16: whenever handleConn has returned, by whatever path, conn.Close() has
\* run; when it returned after a successful dial backendConn.Close() has run
\* as well (and only then); its g.wg.Done() has run exactly once; and before
\* it returns nothing is closed and the wait-group entry is held.
C16_Cleanup ==
    /\ sess.pc = "done" =>
           /\ sess.exit # "none"
           /\ sess.closed = (IF sess.dialed THEN {"conn", "backendConn"}
                             ELSE {"conn"})
           /\ sess.wg = 0
           /\ sess.defers = <<>>
    /\ sess.pc # "done" =>
           /\ sess.closed = {} /\ sess.wg = 1

\* a session whose backend connection was upgraded to TLS has returned on
\* shutdown with both connections closed
C16_Witness ==
    /\ sess.pc = "done" /\ sess.exit = "quit"
    /\ Len(shist.log) > 0 /\ shist.second
    /\ sess.closed = {"conn", "backendConn"} /\ sess.wg = 0

\* a session has returned after a failed backend TLS handshake
C16_WitnessTLS ==
    /\ sess.pc = "done" /\ sess.exit = "tlsClient"
    /\ sess.closed = {"conn", "backendConn"} /\ sess.wg = 0

\* the step of handleConn that ends with conn.SetRawConn(tlsConn)
ClientUpgradeStep == sess.pc = "tlsServer" /\ sess'.pc = "recvResponseTLS"

\* the step of handleConn that calls backendConn.SetRawConn(tlsConn) and
\* sends the response again on the upgraded stream
BackendUpgradeStep == sess.pc = "tlsClient" /\ sess'.pc = "authB"

ResponseForwarded == sess.pc \in {"authB", "authC", "relay"} \/ sess.relay # "none"

\* C23: once the response is forwarded, a response with the SSL bit has been
\* sent twice, whole (auth data included) and the same both times: first on
\* the plain stream with sequence 1, then, after the TLS client handshake,
\* on the TLS stream with sequence 2; a response without the SSL bit has
\* been sent once (sequence 1) and no TLS handshake with the backend was
\* attempted; while the handshake is pending only the plain copy is out; a
\* failed TLS handshake with the backend has ended the session with the Err
\* packet as the last packet to the client, one copy sent and no auth packet
\* copied.
C23_BackendTLS ==
    /\ \A i \in 1..Len(shist.copies) :
           /\ shist.copies[i].seq = i
           /\ shist.copies[i].whole /\ shist.copies[i].same
           /\ shist.copies[i].tls <=> i = 2
    /\ ResponseForwarded =>
           IF shist.copies[1].ssl
           THEN Len(shist.copies) = 2 /\ shist.beTLS = "ok"
           ELSE Len(shist.copies) = 1 /\ shist.beTLS = "none"
    /\ sess.pc = "tlsClient" =>
           /\ Len(shist.copies) = 1 /\ shist.beTLS = "none"
           /\ shist.copies[1].ssl
    /\ shist.beTLS = "failed" =>
           /\ sess.pc = "done" /\ sess.exit = "tlsClient"
           /\ Len(shist.copies) = 1
           /\ shist.log = <<>> /\ shist.beSent = <<>>
           /\ ~shist.cliErr => ErrSurfaced("tlsClient")
    /\ sess.exit = "tlsClient" => shist.beTLS = "failed"

\* two copies of a response with auth data and attributes were sent, the
\* second one on the TLS stream, and the auth exchange begins
C23_Witness ==
    /\ sess.pc = "authB" /\ shist.beTLS = "ok"
    /\ Len(shist.copies) = 2 /\ Len(shist.sent) = 2
    /\ shist.sent[2].res.Auth = <<7, 0, 9>>
    /\ shist.sent[2].res.Attrs # {}
    /\ shist.copies[2].seq = 2 /\ shist.copies[2].tls
    /\ HeadersOf(sconn["backendConn"].tx)[1].seq = 2

\* a session without the SSL bit has reached its relay with one copy sent
C23_WitnessPlain ==
    /\ sess.relay # "none" /\ shist.beTLS = "none"
    /\ Len(shist.copies) = 1
    /\ ~shist.copies[1].ssl

\* the client has read the Err packet of a failed backend TLS handshake
C23_WitnessFailed ==
    /\ shist.beTLS = "failed"
    /\ shist.cliRcvd # <<>>
    /\ shist.cliRcvd[Len(shist.cliRcvd)] = ErrPacket(ErrText("tlsClient"))

\* C32: the steps of a session come in order: the session reads from the
\* client only after it has written its greeting; it dials only with a
\* decoded HandshakeResponse (the one from the TLS stream when the first one
\* asked for SSL); it writes to the backend only after the backend's greeting
\* has arrived and been read; it copies an auth packet only after the
\* response has been sent to the backend (twice when TLS is used); and it
\* enters the relay only in the step that copies, without error, a backend
\* packet that ends the auth exchange.
C32_StepOrder ==
    [][/\ BLen(sconn'["client"].tx) < BLen(sconn["client"].tx) =>
              sconn["conn"].sequence > 0 /\ sess.pc # "greet"
       /\ shist'.dials > shist.dials =>
              /\ shist.decoded # NoResponse
              /\ shist.first = "full"
              /\ ClientSSL \in shist.decoded.Capability => shist.second
       /\ BLen(sconn'["backendConn"].tx) > BLen(sconn["backendConn"].tx) =>
              /\ shist.greeted /\ shist.dials = 1
              /\ shist.copies = <<>> => sconn'["backend"].tx = <<>>
       /\ Len(shist'.log) > Len(shist.log) =>
              /\ shist.copies # <<>>
              /\ shist.copies[1].ssl => Len(shist.copies) = 2
       /\ (sess.relay = "none" /\ sess'.relay # "none") =>
              /\ sess'.pc = "relay"
              /\ Len(shist'.log) = Len(shist.log) + 1
              /\ shist'.log[Len(shist'.log)].dir = "b2c"
              /\ shist'.log[Len(shist'.log)].st = "ok"
              /\ AuthTerminal(shist'.log[Len(shist'.log)].data)
       /\ sess'.pc = "relay" => sess'.relay # "none"]_vars

\* a session with TLS on both legs is in its relay after an auth exchange of
\* three packets
C32_Witness ==
    /\ sess.pc = "relay" /\ sess.relay # "none"
    /\ shist.second /\ shist.beTLS = "ok"
    /\ Len(shist.copies) = 2 /\ Len(shist.log) = 3

\* the two counters of the session agree while the auth exchange runs and
\* when it is over, and the client has found every packet numbered as it
\* expected
CountersAgree ==
    /\ sess.pc \in {"authB", "authC", "relay"} =>
           sconn["conn"].sequence = sconn["backendConn"].sequence
    /\ ~shist.cliErr

\* a copyPacket call of the auth exchange that returned no error wrote the
\* packet with the sequence number it read it with
SameNumberStep ==
    LET last == shist'.log[Len(shist'.log)]
        Read(e) == Take(sconn[e].tx, BLen(sconn[e].tx) - BLen(sconn'[e].tx))
    IN (Len(shist'.log) > Len(shist.log) /\ last.st = "ok") =>
           /\ HeadersOf(last.wire) # <<>>
           /\ HeadersOf(last.wire) =
                  HeadersOf(Read(IF last.dir = "b2c" THEN "backend" ELSE "client"))

\* C35: when the auth exchange starts and after every packet it copies
\* (payloads shorter than MaxPayloadLen), the counter of the client's
\* connection equals the counter of the backend's connection, with both
\* legs on TLS and with neither; every packet of the exchange is written
\* with the sequence number it was read with, and the client finds the
\* number it expects on every packet, the final OK or Err included.
C35_SequenceLockstep ==
    /\ [](shist.short => CountersAgree)
    /\ [][shist'.short => SameNumberStep]_vars

\* the client has read the final OK of an exchange of three packets, both
\* legs on TLS; the counters stand at 6
C35_Witness ==
    /\ sess.pc = "relay" /\ shist.short
    /\ shist.second /\ shist.beTLS = "ok"
    /\ Len(shist.log) = 3 /\ Len(shist.cliRcvd) = 2
    /\ FirstByte(shist.cliRcvd[2]) = HeaderOK
    /\ sconn["conn"].sequence = 6 /\ sconn["backendConn"].sequence = 6

\* the same with neither leg on TLS; the counters stand at 5
C35_WitnessPlain ==
    /\ sess.pc = "relay" /\ shist.short
    /\ ~shist.second /\ shist.beTLS = "none"
    /\ Len(shist.log) = 3 /\ Len(shist.cliRcvd) = 2
    /\ FirstByte(shist.cliRcvd[2]) = HeaderOK
    /\ sconn["conn"].sequence = 5 /\ sconn["backendConn"].sequence = 5

\* this step is the copyPacket call of exchangeAuth that forwards an Err
\* packet of the backend to the client
ErrForwarded ==
    LET last == shist'.log[Len(shist'.log)]
    IN /\ sess.pc = "authB"
       /\ Len(shist'.log) > Len(shist.log)
       /\ last.st = "ok" /\ last.data # <<>> /\ FirstByte(last.data) = HeaderErr

\* C40: when the backend ends the auth exchange with an Err packet,
\* exchangeAuth returns no error once the packet is forwarded and the
\* session enters its relay, RelayPackets with the compression layer on the
\* client's connection if the client asked for compression and
\* RelayRawBytes otherwise, as it does after OK; the session then ends only
\* through the error of a relay direction or the shutdown signal.
C40_ErrEntersRelay ==
    [][/\ ErrForwarded =>
              /\ sess'.pc = "relay" /\ sess'.exit = "none"
              /\ sess'.relay = RelayOf(sess.enableCompress)
              /\ sconn'["conn"].compressor.on = sess.enableCompress
              /\ ~sconn'["backendConn"].compressor.on
              /\ HeadersOf(shist'.log[Len(shist'.log)].wire) # <<>>
       /\ (sess.pc = "relay" /\ sess'.pc # "relay") =>
              sess'.exit \in {"errCh", "quit"}]_vars

\* the backend answered with Err, the client has read it, and the session
\* is in RelayPackets with compression installed
C40_Witness ==
    /\ sess.pc = "relay" /\ sess.relay = "packets"
    /\ sconn["conn"].compressor.on
    /\ Len(shist.log) = 1 /\ FirstByte(shist.log[1].data) = HeaderErr
    /\ Len(shist.cliRcvd) = 1 /\ FirstByte(shist.cliRcvd[1]) = HeaderErr

\* the same into RelayRawBytes
C40_WitnessRaw ==
    /\ sess.pc = "relay" /\ sess.relay = "raw"
    /\ ~sconn["conn"].compressor.on
    /\ Len(shist.log) = 1 /\ FirstByte(shist.log[1].data) = HeaderErr
    /\ Len(shist.cliRcvd) = 1 /\ FirstByte(shist.cliRcvd[1]) = HeaderErr

----------------------------------------------------------------------------
(* Claims on SpecGateway.                                                  *)

\* every handleConn and serve have returned
AllReturned ==
    /\ \A s \in 1..MaxSessions : gw.conns[s].pc \in {"none", "done"}
    /\ gw.serve \in {"none", "returned"}
    /\ gw.wg = 0

\* C5: if Stop is called while every live session is in its relay (raw or
\* packet) and no connection is waiting to be accepted, then, unless a
\* client connects after the call, every relay call, every handleConn and
\* serve return and Stop returns.
C5_GracefulStop ==
    (gw.stop = "quit" /\ ghist.stopClean)
        ~> ((gw.stop = "returned" /\ AllReturned) \/ ghist.late)

\* Stop has returned after a call that found two sessions in their relay,
\* one raw and one by packets, and no client connected after the call
C5_Witness ==
    /\ gw.stop = "returned"
    /\ ghist.stopClean
    /\ ~ghist.late
    /\ AllReturned
    /\ ghist.relaying = {"raw", "packets"}

\* the connection IDs handed out so far are 1, 2, ..., k in the order they
\* were taken, and the counter stands at k
IDsInOrder ==
    /\ \A i \in 1..Len(ghist.ids) : ghist.ids[i] = i
    /\ gw.connectionID = Len(ghist.ids)

\* C17: however the handleConn goroutines interleave, the connection IDs
\* they obtain are pairwise distinct and are exactly 1, 2, ..., k for k
\* sessions, and g.connectionID never decreases.
C17_ConnectionIDs ==
    [][/\ gw'.connectionID >= gw.connectionID
       /\ IDsInOrder'
       /\ \A i, j \in 1..Len(ghist'.ids) : ghist'.ids[i] = ghist'.ids[j] => i = j]_vars

\* two sessions that run at the same time have taken their IDs
C17_Witness ==
    /\ Cardinality({s \in 1..MaxSessions : gw.conns[s].pc = "handshake"}) >= 2
    /\ Len(ghist.ids) >= 2
    /\ gw.connectionID = Len(ghist.ids)

\* the handleConn goroutines that have been started and have not returned
Running == {s \in 1..MaxSessions : gw.conns[s].pc \notin {"none", "done"}}

\* g.wg counts serve while it runs and every running handleConn
WgCounts ==
    gw.wg = (IF gw.serve \in {"accept", "spawn"} THEN 1 ELSE 0) + Cardinality(Running)

\* C22: g.wg counts serve and every handleConn from before it is started
\* until it has returned; a handleConn is added only while the counter is
\* positive and Stop has not returned (never after the counter has drained);
\* and at the step at which Stop returns and ever after no handleConn is
\* running, serve having returned at that step if it was started.
C22_StopDrains ==
    [][/\ WgCounts'
       /\ (Running' \ Running) # {} => (gw.wg > 0 /\ gw.stop # "returned")
       /\ gw'.stop = "returned" => Running' = {}
       /\ (gw.stop # "returned" /\ gw'.stop = "returned") =>
              (gw'.serve \in {"none", "returned"} /\ gw'.wg = 0)]_vars

\* Stop has returned after every session the listener could take was
\* spawned and returned, one of them for a client that connected after Stop
\* was called
C22_Witness ==
    /\ gw.stop = "returned" /\ gw.serve = "returned" /\ gw.wg = 0
    /\ ghist.late /\ ~ghist.stopClean
    /\ \A s \in 1..MaxSessions : gw.conns[s].pc = "done"

\* a direction of the relay of session s has reported an error or the end of
\* its stream, or g.quit is closed
RelayMustEnd(s) ==
    /\ gw.conns[s].pc = "relay"
    /\ gw.conns[s].errCh > 0 \/ gw.quit

\* C29: a relay call returns only when a copying goroutine has reported to
\* errCh or g.quit is closed; once that is the case the relay call returns,
\* handleConn returns after it and closes both connections, and no copying
\* goroutine of the session is left; no session stays in its relay with one
\* direction failed.
C29_RelayTermination ==
    /\ [][\A s \in 1..MaxSessions :
              (gw.conns[s].pc = "relay" /\ gw'.conns[s].pc # "relay") =>
                  /\ RelayMustEnd(s)
                  /\ gw'.conns[s].pc = "returning"]_vars
    /\ \A s \in 1..MaxSessions :
           RelayMustEnd(s) ~> (gw.conns[s].pc = "done" /\ gw.conns[s].copiers = 0)

\* one direction of a packet relay failed, the relay call returned through
\* errCh while g.quit is open, and the other direction's goroutine is still
\* there until handleConn closes the connections
C29_Witness ==
    \E s \in 1..MaxSessions :
        /\ gw.conns[s].pc = "returning" /\ gw.conns[s].mode = "packets"
        /\ gw.conns[s].copiers = 1 /\ gw.conns[s].errCh = 0
        /\ ~gw.quit

\* a raw relay returned through the quit case with both directions running
C29_WitnessQuit ==
    \E s \in 1..MaxSessions :
        /\ gw.conns[s].pc = "returning" /\ gw.conns[s].mode = "raw"
        /\ gw.conns[s].copiers = 2 /\ gw.conns[s].errCh = 0
        /\ gw.quit

\* what a step does to the sessions: closing g.quit ends none and changes
\* none, and a handler leaves through the quit case of a select only from
\* the relay
QuitSeenInRelayOnly ==
    /\ gw'.quit # gw.quit => (gw'.conns = gw.conns /\ gw'.wg = gw.wg)
    /\ \A s \in 1..MaxSessions :
           (gw.conns[s].pc # "returning" /\ gw'.conns[s].pc = "returning") =>
               gw.conns[s].pc = "relay"

\* C38: the shutdown signal is observed in the relay only.  A session that
\* is in its handshake, TLS upgrade, dial or auth exchange when Stop closes
\* g.quit is not ended by it and can take its next step as before; Stop does
\* not return while the handler of any session has not returned.
C38_QuitOnlyInRelay ==
    /\ [][QuitSeenInRelayOnly]_vars
    /\ [](\A s \in 1..MaxSessions :
              gw.conns[s].pc = "handshake" =>
                  /\ gw.stop # "returned"
                  /\ ENABLED SessHandshake(s, TRUE, FALSE)
                  /\ ENABLED SessHandshake(s, FALSE, FALSE))
    /\ [](gw.stop = "returned" =>
              \A s \in 1..MaxSessions : gw.conns[s].pc \in {"none", "done"})

\* Stop has closed g.quit and the listener and waits, while session 1 is
\* still before its relay
C38_Witness ==
    /\ gw.quit /\ gw.stop = "close" /\ gw.wg > 0
    /\ gw.conns[1].pc = "handshake"

\* no session was in the relay when Stop closed g.quit, and session 1 has
\* gone on into the relay since
C38_WitnessWentOn ==
    /\ gw.quit /\ gw.stop = "close"
    /\ ghist.relaying = {} /\ gw.conns[1].pc = "relay"

\* what a step does to errCh: a value is added by a copying goroutine that
\* exits with it, one value each
OneValueEach ==
    \A s \in 1..MaxSessions :
        gw'.conns[s].errCh > gw.conns[s].errCh =>
            /\ gw'.conns[s].errCh = gw.conns[s].errCh + 1
            /\ gw'.conns[s].copiers = gw.conns[s].copiers - 1

\* C39: in both relays each copying goroutine sends one value to errCh at
\* most and finds room for it, whether or not the relay call has returned;
\* once handleConn has returned and closed both connections, both
\* goroutines exit.
C39_NoLeak ==
    /\ [][OneValueEach]_vars
    /\ [](\A s \in 1..MaxSessions :
              /\ gw.conns[s].copiers + gw.conns[s].errCh <= 2
              /\ gw.conns[s].copiers > 0 => ChanHasRoom(gw.conns[s].errCh))
    /\ \A s \in 1..MaxSessions :
           (gw.conns[s].pc = "done") ~> (gw.conns[s].copiers = 0)

\* the relay of session 1 returned through its quit case with both
\* goroutines running; both have sent their error and exited since, and
\* nobody receives the two values
C39_Witness ==
    /\ gw.conns[1].pc = "done" /\ gw.quit
    /\ gw.conns[1].copiers = 0 /\ gw.conns[1].errCh = errChCap

\* handleConn has returned and both goroutines are still running
C39_WitnessRunning ==
    /\ gw.conns[1].pc = "done" /\ gw.conns[1].copiers = 2

----------------------------------------------------------------------------
(* Claims on SpecCodec.                                                    *)

\* the length of the length-encoded form of x
LenencLen(x) ==
    IF x <= 250 THEN 1
    ELSE IF x <= 65535 THEN 3
    ELSE IF x <= 16777215 THEN 4
    ELSE 9

\* the first byte of the length-encoded form of x
LenencPrefix(x) ==
    IF x <= 250 THEN x
    ELSE IF x <= 65535 THEN 252
    ELSE IF x <= 16777215 THEN 253
    ELSE 254

\* C20: WriteLenencInt(x) appends 1 byte for x <= 250, 3 bytes starting with
\* 0xFC for 251 <= x <= 0xFFFF, 4 bytes starting with 0xFD up to 0xFFFFFF
\* and 9 bytes starting with 0xFE above; ReadLenencInt on the written bytes
\* returns x and consumes exactly those bytes; on a Buffer that ends before
\* the end of the value it returns an error.
C20_LenencInt ==
    /\ chist.op = "write" =>
           /\ Len(cbuf) = Len(chist.before) + LenencLen(chist.x)
           /\ SubSeq(cbuf, 1, Len(chist.before)) = chist.before
           /\ cbuf[Len(chist.before) + 1] = LenencPrefix(chist.x)
    /\ chist.op = "read" =>
           IF chist.short THEN ~chist.ok
           ELSE /\ chist.ok
                /\ chist.v = chist.x
                /\ cbuf = SubSeq(chist.before, LenencLen(chist.x) + 1,
                                 Len(chist.before))

\* 0x1000000 was read back from its 9 bytes with another value behind it
C20_Witness ==
    /\ chist.op = "read" /\ chist.ok /\ chist.v = 16777216
    /\ Len(chist.before) = 9 + 3
    /\ Len(cbuf) = 3 /\ chist.vals = <<251>>

\* a value cut short was refused
C20_WitnessShort ==
    /\ chist.op = "read" /\ chist.short /\ ~chist.ok
    /\ chist.x = 65536 /\ Len(chist.before) = 3

\* C21: a Handshake of protocol version 10 with the default capabilities and
\* 20 bytes of auth-plugin data is read back from its encoding without error
\* and equal in every field; and for each combination of ProtocolFortyOne,
\* SecureConnection, PluginAuth, PluginAuthLenencClientData, ConnectWithDB
\* and ConnectAttrs a HandshakeResponse holding the fields its format
\* carries is read back from its encoding without error and equal in every
\* field, whatever the order in which its attributes were written.
C21_PacketRoundTrip ==
    /\ chist.op = "readHandshake" => (~chist.err /\ chist.got = chist.s)
    /\ chist.op = "readResponse" => (~chist.err /\ chist.got = chist.s)

\* a HandshakeResponse with all six bits, a NUL in its auth response, a
\* database, a plugin name and two attributes was read back
C21_Witness ==
    /\ chist.op = "readResponse" /\ ~chist.err
    /\ {ClientProtocol41, ClientSecureConnection, ClientPluginAuth,
        ClientPluginAuthLenencClientData, ClientConnectWithDB,
        ClientConnectAttrs} = chist.got.Capability
    /\ chist.got.Auth = <<7, 0, 9>> /\ chist.got.DBName = Str(<<"d">>)
    /\ Cardinality(chist.got.Attrs) = 2 /\ chist.got.AuthPlugin = Str(<<"a">>)

\* a HandshakeResponse of the old format with a database was read back
C21_WitnessOld ==
    /\ chist.op = "readResponse" /\ ~chist.err
    /\ chist.got.Capability = {ClientConnectWithDB, ClientPluginAuth}
    /\ chist.got.Auth = <<7, 9>> /\ chist.got.DBName = Str(<<"d">>)

\* a Handshake was read back with its 20 bytes of auth-plugin data
C21_WitnessHandshake ==
    /\ chist.op = "readHandshake" /\ ~chist.err
    /\ chist.got.Capability = DefaultCapability
    /\ chist.got.AuthPluginData = [i \in 1..20 |-> i]
    /\ chist.got.ConnectionID = 2147483647
    /\ chist.got.AuthPluginName = Str(<<"a", "c">>)


----------------------------------------------------------------------------
(* Claims on SpecRelay.                                                    *)

\* the packet headers the backend has been sent
BackendGot == HeadersOf(pconn["backendConn"].tx)

\* C24: the wire packets written to the backend carry, one by one, the
\* payload length and the sequence number of the wire packets the client
\* sent: a command sent as packets 0, 1 reaches the backend as packets 0, 1.
C24_SequencePreserved ==
    /\ Len(BackendGot) <= Len(phist.sent)
    /\ \A i \in 1..Len(BackendGot) : BackendGot[i] = phist.sent[i]

\* commands of one wire packet are forwarded with their number, 0
C24_SinglePacketCommands ==
    (\A i \in 1..Len(phist.cmds) : phist.cmds[i].chunks = 1) => C24_SequencePreserved

\* a command in two wire packets is forwarded whole
C24_ChunkedForwarded ==
    /\ Len(phist.cmds) = 1 /\ phist.cmds[1].chunks = 2
    /\ Len(BackendGot) = 2
    /\ ptask.inbound.pc = "read" /\ pwire.client = <<>>

\* C25: copyInboundPackets never fails to read a command of the client, and
\* every packet the client numbered 0 (the first packet of a command) is
\* forwarded to the backend with number 0, whether or not the backend
\* answered the command before.
C25_CommandsAccepted ==
    /\ \A i \in 1..Len(ptask.errCh) : ptask.errCh[i] # "read from remote failed"
    /\ \A i \in 1..Len(BackendGot) :
           i <= Len(phist.sent) /\ phist.sent[i].seq = 0 => BackendGot[i].seq = 0

\* commands that follow the answer to the command before them are accepted
C25_AcceptedAfterAnswer ==
    (\A i \in 1..(Len(phist.cmds) - 1) : ~phist.cmds[i].quiet) => C25_CommandsAccepted

\* the second command, sent after the answer to the first one, is forwarded
C25_SecondForwarded ==
    /\ Len(phist.cmds) = 2 /\ ~phist.cmds[1].quiet
    /\ phist.cmds[1].chunks = 1 /\ phist.cmds[2].chunks = 1
    /\ Len(BackendGot) = 2 /\ BackendGot[2].seq = 0

\* C26: no counter of a connection, its own or the compression layer's, is
\* changed by both goroutines of the relay.
C26_DisjointCounters ==
    \A e \in {"conn", "backendConn"} :
        \A f \in Counters : Cardinality(phist.writers[e][f]) <= 1

\* this step is a SetResetOption(opt) call of the relay on connection e
ResetCalled(e, opt) ==
    \/ /\ e = "backendConn" /\ opt = {SeqResetOnWrite}
       /\ ptask.inbound.pc = "reset" /\ ptask'.inbound.pc = "write"
    \/ /\ e = "conn" /\ opt = {SeqResetOnRead}
       /\ ptask.outbound.pc = "reset" /\ ptask'.outbound.pc = "write"

\* C27: a SetResetOption call that names one mark leaves the other mark as
\* it was: pending if it was pending, on the Conn and on its compression
\* layer.
C27_IndependentMarks ==
    [][\A e \in {"conn", "backendConn"} :
           \A opt \in {{SeqResetOnRead}, {SeqResetOnWrite}} :
               ResetCalled(e, opt) =>
                   \A m \in SeqResetBoth \ opt :
                       /\ m \in pconn[e].seqreset => m \in pconn'[e].seqreset
                       /\ m \in pconn[e].compressor.seqreset =>
                              m \in pconn'[e].compressor.seqreset]_vars

\* the uncompressed bytes of the compressed frames bs
RECURSIVE FrameContents(_)
FrameContents(bs) ==
    IF BLen(bs) < 7 \/ ~IsFrameHeader(Take(bs, 7)) THEN <<>>
    ELSE LET head == Take(bs, 7)[1]
             body == Take(Drop(bs, 7), head.a)
         IN Cat(IF head.c = 0 THEN body ELSE ZlibInflate(body),
                FrameContents(Drop(bs, 7 + head.a)))

\* the packets in the bytes bs: the payload of each, and whether it is whole
RECURSIVE PacketsIn(_)
PacketsIn(bs) ==
    IF bs = <<>> THEN <<>>
    ELSE IF BLen(bs) < 4 \/ ~IsPacketHeader(Take(bs, 4))
    THEN <<[whole |-> FALSE, data |-> bs]>>
    ELSE LET n == Take(bs, 4)[1].a
             rest == Drop(bs, 4)
         IN IF BLen(rest) < n THEN <<[whole |-> FALSE, data |-> rest]>>
            ELSE <<[whole |-> TRUE, data |-> Take(rest, n)]>>
                     \o PacketsIn(Drop(rest, n))

\* the payloads list[from..to] as whole packets
WholePackets(list, from, to) ==
    [i \in 1..(to - from + 1) |-> [whole |-> TRUE, data |-> list[from + i - 1]]]

\* the payload is empty or begins with 0x00 (OK), 0xFE (EOF) or 0xFF (Err)
TriggersFlush(data) ==
    \/ data = <<>>
    \/ FirstByte(data) \in {HeaderOK, HeaderEOF, HeaderErr}

\* the last of the first n payloads of list that triggers a flush, or 0
LastTrigger(list, n) ==
    IF \E i \in 1..n : TriggersFlush(list[i])
    THEN CHOOSE i \in 1..n :
             /\ TriggersFlush(list[i])
             /\ \A j \in (i + 1)..n : ~TriggersFlush(list[j])
    ELSE 0

\* the packets written to the client's connection, in the order the backend
\* sent them, are with the client up to the last one that triggers a flush
\* and in the write buffer after it
FlushPolicy ==
    LET n == Len(phist.relayed)
        k == LastTrigger(phist.relayed,
                         IF ptask.outbound.pc = "flush" THEN n - 1 ELSE n)
    IN /\ PacketsIn(FrameContents(pconn["conn"].tx)) =
              WholePackets(phist.relayed, 1, k)
       /\ PacketsIn(Unflushed(pconn["conn"])) = WholePackets(phist.relayed, k + 1, n)

\* C28: the bytes the client has been sent are, whole and in order, the
\* backend packets up to the last one whose payload is empty or begins with
\* OK, EOF or Err; every packet written after that one is in the write
\* buffer of the client's connection, whole and in order.
C28_FlushPolicy == FlushPolicy

\* the same, while every packet fits the pending-write buffer
C28_FittingFlushPolicy == phist.fits => FlushPolicy

\* a row and an EOF packet were written and both are with the client
C28_FittingWitness ==
    /\ phist.fits /\ Len(phist.relayed) = 2
    /\ ~TriggersFlush(phist.relayed[1])
    /\ phist.relayed[2] # <<>> /\ FirstByte(phist.relayed[2]) = HeaderEOF
    /\ ptask.outbound.pc = "read"
    /\ Len(PacketsIn(FrameContents(pconn["conn"].tx))) = 2

\* the packets written to connection e so far, sent or still in its write
\* buffer
WrittenTo(c) ==
    PacketsIn(Cat(IF c.compressor.on THEN FrameContents(c.tx) ELSE c.tx,
                  Unflushed(c)))

\* this step is the WritePacket call of goroutine t
RelayWrites(t) ==
    ~ptask.closed /\ ptask[t].pc = "write" /\ ptask'[t].pc # "write"

\* a step of the relay forwards one wire packet as one wire packet: what
\* copyOutboundPackets reads is the payload of the first wire packet the
\* backend sent, and a WritePacket call of either goroutine adds exactly one
\* whole wire packet with the payload it read to its destination
OneToOneStep ==
    /\ (~ptask.closed /\ ptask.outbound.pc = "read" /\ ptask'.outbound.pc # "read") =>
           /\ ptask'.outbound.pc = "reset"
           /\ <<[whole |-> TRUE, data |-> ptask'.outbound.b]>> \o PacketsIn(pwire'.backend)
                  = PacketsIn(pwire.backend)
    /\ RelayWrites("inbound") =>
           /\ ptask'.inbound.pc = "read"
           /\ WrittenTo(pconn'["backendConn"]) =
                  WrittenTo(pconn["backendConn"])
                      \o <<[whole |-> TRUE, data |-> ptask.inbound.b]>>
           /\ Unflushed(pconn'["backendConn"]) = <<>>
    /\ RelayWrites("outbound") =>
           /\ ptask'.outbound.pc = "flush"
           /\ WrittenTo(pconn'["conn"]) =
                  WrittenTo(pconn["conn"])
                      \o <<[whole |-> TRUE, data |-> ptask.outbound.b]>>

\* C34: in each direction every wire packet the relay reads is written to
\* the destination as exactly one wire packet with the same payload, in
\* order, none dropped, merged, split or duplicated, packets of
\* MaxPayloadLen bytes and empty packets included.
C34_OneToOne == [][OneToOneStep]_vars

\* the same, while the packets written to the client fit the pending-write
\* buffer of its compression layer
C34_FittingOneToOne == [][phist'.fits => OneToOneStep]_vars

\* a wire packet of MaxPayloadLen bytes from the client is with the backend
\* as one wire packet, followed by the one-byte packet that came after it
C34_FullPacketForwarded ==
    /\ Len(phist.cmds) = 1 /\ phist.cmds[1].chunks = 2
    /\ ptask.inbound.pc = "read" /\ pwire.client = <<>>
    /\ WrittenTo(pconn["backendConn"]) =
           <<[whole |-> TRUE, data |-> Take(CommandData(1, phist.cmds[1]), MaxPayloadLen)],
             [whole |-> TRUE, data |-> Drop(CommandData(1, phist.cmds[1]), MaxPayloadLen)]>>

\* the write to the client failed on a packet read from the backend, and the
\* client has been sent the beginning of it only
C34_PacketCut ==
    /\ ptask.outbound.pc = "done" /\ ~ptask.closed
    /\ \E i \in 1..Len(ptask.errCh) : ptask.errCh[i] = "write to remote failed"
    /\ \E got \in {PacketsIn(FrameContents(pconn["conn"].tx))} :
           got # <<>> /\ ~got[Len(got)].whole

----------------------------------------------------------------------------
(* Claims on SpecRaw.                                                      *)

\* the bytes RelayRawBytes has written to connection e
RawForwarded(e) == Drop(pconn[e].tx, phist.base[e])

\* in each direction the bytes the raw copies have written, followed by the
\* bytes still on their way, are the bytes the peer sent behind its last
\* packet of the auth exchange
AllForwarded ==
    /\ Cat(RawForwarded("backendConn"), pwire.client) = phist.trailing["client"]
    /\ Cat(RawForwarded("conn"), pwire.backend) = phist.trailing["backend"]

\* C37: once the session runs the raw relay, every byte the client or the
\* backend sent behind its last packet of the auth exchange, the bytes the
\* bufio.Reader took while that packet was read included, is forwarded to
\* the other side, in order.
C37_NoBytesLost == ptask.pc \in {"relay", "done"} => AllForwarded

\* the same, when the readers took nothing behind the last packets
C37_NoBytesLostUnbuffered ==
    (/\ ptask.pc \in {"relay", "done"}
     /\ \A e \in {"conn", "backendConn"} : pwire.r[e] = <<>>) => AllForwarded

\* the relay has copied everything that came from the client, and the
\* backend has not been sent the first bytes the client sent behind its last
\* auth packet: they are in the bufio.Reader of the client's Conn
C37_BytesStranded ==
    /\ ptask.pc = "relay" /\ pwire.client = <<>>
    /\ phist.pieces["client"] = MaxTrailing
    /\ pwire.r["conn"] # <<>>
    /\ RawForwarded("backendConn") # <<>>
    /\ RawForwarded("backendConn") =
           Drop(phist.trailing["client"], BLen(pwire.r["conn"]))

====
